---- MODULE Spec2Model ----
(***************************************************************************)
(* Steganographic encoder: the LSB bit codec of steganographer.py, the     *)
(* frame data format built on it (timing record, subtitle record), the     *)
(* corner markers of marker_generator.py and the active-subtitle selection.*)
(*                                                                         *)
(* Values.  A byte string is a sequence of 0..255.  A Python integer that  *)
(* is packed as u32 is the record [hi, lo] standing for hi * 65536 + lo    *)
(* (lo in 0..65535, hi a natural number: hi > 65535 is a value that does   *)
(* not fit 32 bits).  A frame (numpy array of uint8) is the record         *)
(* [shape, cover, px]: shape is <<height, width>> or <<height, width,      *)
(* channels>>, and the element at flat index i (row-major, channel last)   *)
(* is px[i] when i is in DOMAIN px and the cover's value at i otherwise.   *)
(***************************************************************************)
EXTENDS Integers, Sequences, FiniteSets, TLC

(***************************************************************************)
(* Program constants.                                                      *)
(***************************************************************************)
LSB_DEPTH == 2
TIMING_STRIP_HEIGHT == 5
SUBTITLE_REGION_HEIGHT_PERCENT == 10
FRAME_NUMBER_SIZE == 4
TIMESTAMP_SIZE == 4
CHECKSUM_SIZE == 2
MARKER_SIZE == 20
MARGIN_FROM_EDGE == 60

\* Python's None; an Optional[bytes] that is not None is [bytes |-> <<...>>]
None == [none |-> TRUE]

Bytes(b) == [bytes |-> b]

(***************************************************************************)
(* Integer helpers: bits, xor on bytes and 16-bit halves.                  *)
(***************************************************************************)
Min(a, b) == IF a <= b THEN a ELSE b
Max(a, b) == IF a >= b THEN a ELSE b

\* (v >> i) & 1
BitOf(v, i) == (v \div (2 ^ i)) % 2

Xor4(a, b) ==
    ((BitOf(a, 0) + BitOf(b, 0)) % 2)
  + ((BitOf(a, 1) + BitOf(b, 1)) % 2) * 2
  + ((BitOf(a, 2) + BitOf(b, 2)) % 2) * 4
  + ((BitOf(a, 3) + BitOf(b, 3)) % 2) * 8

XorTab == [a \in 0..15 |-> [b \in 0..15 |-> Xor4(a, b)]]

Xor8(a, b) == XorTab[a \div 16][b \div 16] * 16 + XorTab[a % 16][b % 16]

Xor16(a, b) == Xor8(a \div 256, b \div 256) * 256 + Xor8(a % 256, b % 256)

(***************************************************************************)
(* zlib.crc32: the reflected CRC-32 (polynomial 0xEDB88320, initial value  *)
(* and final xor 0xFFFFFFFF), byte-wise over a table.  A 32-bit word is    *)
(* the pair <<high 16 bits, low 16 bits>>.                                 *)
(***************************************************************************)
Xor32(a, b) == <<Xor16(a[1], b[1]), Xor16(a[2], b[2])>>

Shr1(c) == <<c[1] \div 2, (c[1] % 2) * 32768 + (c[2] \div 2)>>

Shr8(c) == <<c[1] \div 256, (c[1] % 256) * 256 + (c[2] \div 256)>>

CrcPoly == <<60856, 33568>>

RECURSIVE CrcBits(_, _)
CrcBits(c, k) ==
    IF k = 0 THEN c
    ELSE CrcBits(IF c[2] % 2 = 1 THEN Xor32(Shr1(c), CrcPoly) ELSE Shr1(c), k - 1)

crc_table == [n \in 0..255 |-> CrcBits(<<0, n>>, 8)]

\* the byte loop from byte i on, the register c being <<word, index>>[1]
CrcUpdate(c, data, i) ==
    LET update[s \in (Nat \X Nat) \X Nat] ==
            IF s[2] > Len(data) THEN s[1]
            ELSE update[<<Xor32(crc_table[Xor8(s[1][2] % 256, data[s[2]])], Shr8(s[1])),
                          s[2] + 1>>]
    IN  update[<<c, i>>]

crc32(data) == Xor32(CrcUpdate(<<65535, 65535>>, data, 1), <<65535, 65535>>)

\* zlib.crc32(data) & 0xFFFF
crc16(data) == crc32(data)[2]

(***************************************************************************)
(* struct.pack / struct.unpack, little-endian.                             *)
(***************************************************************************)
U32(hi, lo) == [hi |-> hi, lo |-> lo]

\* struct.pack('<I', n) raises struct.error when n does not fit 32 bits
FitsU32(n) == n.hi <= 65535

\* mutant: the u32 is packed big-endian ('>I')
pack_I_big_endian(n) == <<n.hi \div 256, n.hi % 256, n.lo \div 256, n.lo % 256>>

pack_I(n) == <<n.lo % 256, n.lo \div 256, n.hi % 256, n.hi \div 256>>

pack_H(v) == <<v % 256, v \div 256>>

unpack_I(b, off) == U32(b[off + 3] + 256 * b[off + 4], b[off + 1] + 256 * b[off + 2])

unpack_H(b, off) == b[off + 1] + 256 * b[off + 2]

\* len(data) as the u32 it is packed as
LenU32(data) == U32(Len(data) \div 65536, Len(data) % 65536)

(***************************************************************************)
(* Frames (numpy arrays of uint8) and regions (basic slices: views).       *)
(***************************************************************************)
CoverAt(cover, i) == (cover.fill + cover.step * i) % 256

NewFrame(shape, cover) == [shape |-> shape, cover |-> cover, px |-> <<>>]

Height(f) == f.shape[1]
Width(f) == f.shape[2]

\* region.shape[2] if len(region.shape) > 2 else 1
Channels(f) == IF Len(f.shape) > 2 THEN f.shape[3] ELSE 1

\* frame.size: the product of the dimensions
Size(f) ==
    LET product[n \in 0..Len(f.shape)] == IF n = 0 THEN 1 ELSE f.shape[n] * product[n - 1]
    IN  product[Len(f.shape)]

\* the element at flat index i
At(f, i) == IF i \in DOMAIN f.px THEN f.px[i] ELSE CoverAt(f.cover, i)

\* flat index of frame[y, x, c] (frame[y, x] of a 2-D frame with c = 0)
Flat(f, y, x, c) == (y * Width(f) + x) * Channels(f) + c

\* frame[start:stop, :], a view on the rows start..stop-1 that exist
RowSlice(f, start, stop) ==
    [row0 |-> Min(start, Height(f)),
     rows |-> Max(0, Min(stop, Height(f)) - Min(start, Height(f)))]

\* two arrays hold the same elements
SameFrame(f, g) ==
    /\ f.shape = g.shape
    /\ f.cover = g.cover
    /\ \A i \in (DOMAIN f.px) \cup (DOMAIN g.px) : At(f, i) = At(g, i)

(***************************************************************************)
(* SteganographicEmbedder._embed_data_in_region.  m is [frame, log, exc]:  *)
(* the array the region is a view of, the messages logged so far, and      *)
(* whether an exception is propagating.  The nested y, x, c, bit_pos loop  *)
(* visits the region's elements in flat order e = (y*width + x)*channels+c *)
(* with bit_idx = e * LSB_DEPTH + bit_pos and stops at len(data_bits).     *)
(***************************************************************************)
\* mutant: the bits of a byte are taken most-significant first
DataBits_msb_first(bytes) ==
    [k \in 1..(8 * Len(bytes)) |-> BitOf(bytes[((k - 1) \div 8) + 1], 7 - ((k - 1) % 8))]

DataBits(data) ==
    [k \in 1..(8 * Len(data)) |-> BitOf(data[((k - 1) \div 8) + 1], (k - 1) % 8)]

\* mutant: the bit is or-ed in without being cleared first
SetBit_or_only(val, bit_pos, bit) ==
    Max(0, Min(255, val + (1 - BitOf(val, bit_pos)) * bit * (2 ^ bit_pos)))

\* max(0, min(255, (val & ~(1 << bit_pos)) | (bit << bit_pos)))
SetBit(val, bit_pos, bit) ==
    Max(0, Min(255, val - BitOf(val, bit_pos) * (2 ^ bit_pos) + bit * (2 ^ bit_pos)))

RECURSIVE WriteChannel(_, _, _, _)
WriteChannel(val, e, data_bits, bit_pos) ==
    IF bit_pos >= LSB_DEPTH \/ e * LSB_DEPTH + bit_pos >= Len(data_bits) THEN val
    ELSE WriteChannel(SetBit(val, bit_pos, data_bits[e * LSB_DEPTH + bit_pos + 1]),
                      e, data_bits, bit_pos + 1)

RegionCapacityBytes(f, region) ==
    (region.rows * Width(f) * LSB_DEPTH * Channels(f)) \div 8

\* mutant: the capacity test is off by one (>=)
DataTooLarge_off_by_one(data, capacity_bytes) == Len(data) >= capacity_bytes

\* if len(data) > capacity_bytes:
DataTooLarge(data, capacity_bytes) == Len(data) > capacity_bytes

_embed_data_in_region(m, region, data, region_name) ==
    LET f == m.frame
        first == region.row0 * Width(f) * Channels(f)
        data_bits == DataBits(data)
        touched == (Len(data_bits) + LSB_DEPTH - 1) \div LSB_DEPTH
        written == [i \in first..(first + touched - 1) |->
                       WriteChannel(At(f, i), i - first, data_bits, 0)]
    IN  IF region.rows * Width(f) * Channels(f) = 0 \/ Len(data) = 0 THEN m
        ELSE IF DataTooLarge(data, RegionCapacityBytes(f, region))
        THEN [m EXCEPT !.log = Append(@, <<"error", "Data too large", region_name>>)]
        ELSE [m EXCEPT !.frame.px = written @@ @]

(***************************************************************************)
(* SteganographicExtractor._extract_data_from_region: the bits are read in *)
(* the same order until bits_needed are read or the region ends; only      *)
(* complete bytes are returned.                                            *)
(***************************************************************************)
_extract_data_from_region(f, region, num_bytes) ==
    LET first == region.row0 * Width(f) * Channels(f)
        available == region.rows * Width(f) * Channels(f) * LSB_DEPTH
        bit_count == Min(num_bytes * 8, available)
        bit(k) == BitOf(At(f, first + (k \div LSB_DEPTH)), k % LSB_DEPTH)
    IN  IF region.rows * Width(f) * Channels(f) = 0 THEN <<>>
        ELSE [j \in 1..(bit_count \div 8) |->
                 bit(8*j - 8) + 2 * bit(8*j - 7) + 4 * bit(8*j - 6) + 8 * bit(8*j - 5)
               + 16 * bit(8*j - 4) + 32 * bit(8*j - 3) + 64 * bit(8*j - 2)
               + 128 * bit(8*j - 1)]

(***************************************************************************)
(* SteganographicEmbedder._embed_timing_data                               *)
(***************************************************************************)
TimingRecord(frame_number, timestamp_ms) ==
    LET timing_data == pack_I(frame_number) \o pack_I(timestamp_ms)
    IN  timing_data \o pack_H(crc16(timing_data))

_embed_timing_data(m, frame_number, timestamp_ms) ==
    IF Height(m.frame) < TIMING_STRIP_HEIGHT
    THEN [m EXCEPT !.log = Append(@, <<"warning", "Frame too small for timing strip",
                                       "timing_strip">>)]
    ELSE IF ~(FitsU32(frame_number) /\ FitsU32(timestamp_ms))
    THEN [m EXCEPT !.exc = TRUE]
    ELSE _embed_data_in_region(m, RowSlice(m.frame, 0, TIMING_STRIP_HEIGHT),
                               TimingRecord(frame_number, timestamp_ms), "timing_strip")

(***************************************************************************)
(* SteganographicEmbedder._embed_subtitle_data                             *)
(***************************************************************************)
\* start_y = height - max(1, height * SUBTITLE_REGION_HEIGHT_PERCENT // 100)
SubtitleStartY(f) ==
    Height(f) - Max(1, (Height(f) * SUBTITLE_REGION_HEIGHT_PERCENT) \div 100)

\* frame[start_y:, :]
SubtitleRegion(f) == RowSlice(f, SubtitleStartY(f), Height(f))

\* mutant: the checksum is left out of the header
SubtitleRecord_no_checksum(subtitle_data) ==
    pack_I(LenU32(subtitle_data)) \o subtitle_data

\* struct.pack('<IH', len(data), crc32(data) & 0xFFFF) + data
SubtitleRecord(subtitle_data) ==
    pack_I(LenU32(subtitle_data)) \o pack_H(crc16(subtitle_data)) \o subtitle_data

\* mutant: the overlap with the timing strip is not tested
_embed_subtitle_data_unguarded(m, subtitle_data) ==
    _embed_data_in_region(m, SubtitleRegion(m.frame),
                          SubtitleRecord(subtitle_data), "subtitle_region")

_embed_subtitle_data(m, subtitle_data) ==
    IF SubtitleStartY(m.frame) <= TIMING_STRIP_HEIGHT
    THEN [m EXCEPT !.log = Append(@, <<"warning", "Subtitle region overlaps with timing strip",
                                       "subtitle_region">>)]
    ELSE _embed_data_in_region(m, SubtitleRegion(m.frame),
                               SubtitleRecord(subtitle_data), "subtitle_region")

(***************************************************************************)
(* SteganographicEmbedder.embed_frame_data.  The result is [ret, input,    *)
(* log]: the array returned, the caller's array after the call, and the    *)
(* messages logged.  subtitle_data is None or Bytes(...).                  *)
(***************************************************************************)
\* if subtitle_data:
Truthy(subtitle_data) == subtitle_data # None /\ Len(subtitle_data.bytes) > 0

\* return frame, of the test for an invalid frame
return_frame_as_none(frame) == None

return_frame(frame) == frame

\* mutant: result_frame = frame, the caller's own buffer
ndarray_copy_aliased(frame) == [buf |-> "input", array |-> frame]

\* result_frame = frame.copy(): a new buffer holding the same elements
ndarray_copy(frame) == [buf |-> "copy", array |-> frame]

embed_frame_data(frame, frame_number, timestamp_ms, subtitle_data) ==
    IF frame = None \/ Size(frame) = 0
    THEN [ret |-> return_frame(frame), input |-> frame,
          log |-> << <<"error", "Invalid frame provided", "frame">> >>]
    ELSE LET result_frame == ndarray_copy(frame)
             m0 == [frame |-> result_frame.array, log |-> <<>>, exc |-> FALSE]
             m1 == _embed_timing_data(m0, frame_number, timestamp_ms)
             m2 == IF ~m1.exc /\ Truthy(subtitle_data)
                   THEN _embed_subtitle_data(m1, subtitle_data.bytes)
                   ELSE m1
             \* the caller's array: written through when result_frame is no copy
             input == IF result_frame.buf = "copy" THEN frame ELSE m2.frame
         IN  IF m2.exc
             THEN [ret |-> input, input |-> input,
                   log |-> Append(m2.log, <<"error", "Error embedding frame data", "frame">>)]
             ELSE [ret |-> m2.frame, input |-> input, log |-> m2.log]

(***************************************************************************)
(* SteganographicEmbedder.estimate_capacity and validate_embedding_capacity *)
(***************************************************************************)
estimate_capacity(frame_width, frame_height) ==
    LET timing_pixels == TIMING_STRIP_HEIGHT * frame_width
        subtitle_height == (frame_height * SUBTITLE_REGION_HEIGHT_PERCENT) \div 100
        subtitle_pixels == subtitle_height * frame_width
    IN  [timing_strip |->
             [height |-> TIMING_STRIP_HEIGHT,
              pixels |-> timing_pixels,
              capacity_bytes |-> (timing_pixels * 3 * LSB_DEPTH) \div 8,
              required_bytes |-> FRAME_NUMBER_SIZE + TIMESTAMP_SIZE + CHECKSUM_SIZE],
         subtitle_region |->
             [height |-> subtitle_height,
              pixels |-> subtitle_pixels,
              capacity_bytes |-> (subtitle_pixels * 3 * LSB_DEPTH) \div 8]]

\* False only when timing_required > timing_available; a low subtitle
\* capacity is logged as a warning
validate_embedding_capacity(frame_width, frame_height) ==
    LET capacity_info == estimate_capacity(frame_width, frame_height)
    IN  ~(capacity_info.timing_strip.required_bytes
              > capacity_info.timing_strip.capacity_bytes)

(***************************************************************************)
(* SteganographicExtractor.extract_timing_data                             *)
(***************************************************************************)
\* mutant: the checksum is not compared
ChecksumMatches_unchecked(checksum, expected_checksum) == TRUE

\* if checksum != expected_checksum: (the record is refused)
ChecksumMatches(checksum, expected_checksum) == checksum = expected_checksum

extract_timing_data(frame) ==
    IF frame = None THEN <<None, None>>
    ELSE IF Height(frame) < TIMING_STRIP_HEIGHT THEN <<None, None>>
    ELSE LET expected_bytes == FRAME_NUMBER_SIZE + TIMESTAMP_SIZE + CHECKSUM_SIZE
             extracted_data ==
                 _extract_data_from_region(frame, RowSlice(frame, 0, TIMING_STRIP_HEIGHT),
                                           expected_bytes)
             frame_number == unpack_I(extracted_data, 0)
             timestamp_ms == unpack_I(extracted_data, 4)
             checksum == unpack_H(extracted_data, 8)
             expected_checksum == crc16(pack_I(frame_number) \o pack_I(timestamp_ms))
         IN  IF Len(extracted_data) < expected_bytes THEN <<None, None>>
             ELSE IF ~ChecksumMatches(checksum, expected_checksum) THEN <<None, None>>
             ELSE <<frame_number, timestamp_ms>>

(***************************************************************************)
(* Python floats (IEEE-754 binary64, round to nearest even), as far as     *)
(* frame_duration_ms = 1000.0 / video_fps and int(frame_number *           *)
(* frame_duration_ms) need them.  A significand is a sequence of bits,     *)
(* least-significant first; a float is [sig, exp], the value               *)
(* sig * 2^(exp - 52) with sig of 53 bits.  video_fps is a whole number of *)
(* frames per second in 1..1000.                                           *)
(***************************************************************************)
RECURSIVE BitLength(_)
BitLength(n) == IF n = 0 THEN 0 ELSE 1 + BitLength(n \div 2)

\* the bits of n, least-significant first, on exactly len bits
IntBits(n, len) == [i \in 1..len |-> BitOf(n, i - 1)]

RECURSIVE BitsValue(_, _)
BitsValue(bits, i) ==
    IF i > Len(bits) THEN 0 ELSE bits[i] + 2 * BitsValue(bits, i + 1)

RECURSIVE Increment(_, _)
Increment(bits, i) ==
    IF i > Len(bits) THEN Append(bits, 1)
    ELSE IF bits[i] = 0 THEN [bits EXCEPT ![i] = 1]
    ELSE Increment([bits EXCEPT ![i] = 0], i + 1)

\* long division: k more quotient bits of r / d, most-significant first
RECURSIVE FractionBits(_, _, _, _)
FractionBits(r, d, k, acc) ==
    IF k = 0 THEN [bits |-> acc, r |-> r]
    ELSE FractionBits((2 * r) % d, d, k - 1, <<(2 * r) \div d>> \o acc)

\* 1000.0 / video_fps
frame_duration_ms(video_fps) ==
    LET q == 1000 \div video_fps
        exp == BitLength(q) - 1
        frac == FractionBits(1000 % video_fps, video_fps, 52 - exp, <<>>)
        sig == frac.bits \o IntBits(q, exp + 1)
        round_up == 2 * frac.r > video_fps \/ (2 * frac.r = video_fps /\ sig[1] = 1)
    IN  [sig |-> IF round_up THEN Increment(sig, 1) ELSE sig, exp |-> exp]

\* the exact product n * sig, least-significant bit first
RECURSIVE MulBits(_, _, _, _, _)
MulBits(bits, n, i, carry, acc) ==
    IF i > Len(bits)
    THEN IF carry = 0 THEN acc ELSE MulBits(bits, n, i, carry \div 2, Append(acc, carry % 2))
    ELSE MulBits(bits, n, i + 1, (n * bits[i] + carry) \div 2,
                 Append(acc, (n * bits[i] + carry) % 2))

\* int(frame_number * duration): the product rounded to 53 bits, truncated
IntOfProduct(n, duration) ==
    IF n = 0 THEN 0
    ELSE LET product == MulBits(duration.sig, n, 1, 0, <<>>)
             drop == Len(product) - 53
             top == SubSeq(product, drop + 1, Len(product))
             round_up == /\ drop > 0
                         /\ product[drop] = 1
                         /\ \/ top[1] = 1
                            \/ \E i \in 1..(drop - 1) : product[i] = 1
             rounded == IF round_up THEN Increment(top, 1) ELSE top
             \* the value is rounded * 2^(duration.exp - 52 + drop)
             shift == 52 - duration.exp - drop
         IN  BitsValue(SubSeq(rounded, shift + 1, Len(rounded)), 1)

(***************************************************************************)
(* SteganographicEmbedder.compress_subtitle_text.  A text is a byte string *)
(* (its UTF-8 encoding).  lz4.frame.compress is an external compressor:    *)
(* its output is modelled as the LZ4 frame magic followed by the input     *)
(* bytes, which is non-empty, deterministic and injective.                 *)
(***************************************************************************)
\* str(n).encode('utf-8') for n >= 0
RECURSIVE DecimalDigits(_)
DecimalDigits(n) ==
    IF n < 10 THEN <<48 + n>> ELSE Append(DecimalDigits(n \div 10), 48 + (n % 10))

lz4_frame_compress(subtitle_bytes) == <<4, 34, 77, 24>> \o subtitle_bytes

\* f"{start_ms}|{end_ms}|{text}".encode('utf-8'), compressed
compress_subtitle_text(text, start_ms, end_ms) ==
    Bytes(lz4_frame_compress(DecimalDigits(start_ms) \o <<124>> \o DecimalDigits(end_ms)
                             \o <<124>> \o text))

(***************************************************************************)
(* SteganographicEmbedder.prepare_subtitle_data_for_frame and              *)
(* SubtitleParser.get_subtitle_at_time.  A SubtitleEntry is                *)
(* [start_ms, end_ms, text, index].                                        *)
(***************************************************************************)
\* for subtitle in subtitles: if start_ms <= time < end_ms: ... break
RECURSIVE FirstActive(_, _, _)
FirstActive(subtitle_list, t, i) ==
    IF i > Len(subtitle_list) THEN None
    ELSE IF subtitle_list[i].start_ms <= t /\ t < subtitle_list[i].end_ms
    THEN subtitle_list[i]
    ELSE FirstActive(subtitle_list, t, i + 1)

\* frame_time_ms = int(frame_number * self.frame_duration_ms)
FrameTimeMs(frame_no, fps) == IntOfProduct(frame_no, frame_duration_ms(fps))

prepare_subtitle_data_for_frame(subtitle_list, frame_no, fps) ==
    LET active_subtitle == FirstActive(subtitle_list, FrameTimeMs(frame_no, fps), 1)
    IN  IF active_subtitle = None THEN None
        ELSE compress_subtitle_text(active_subtitle.text, active_subtitle.start_ms,
                                    active_subtitle.end_ms)

get_subtitle_at_time(subtitle_list, t) == FirstActive(subtitle_list, t, 1)

(***************************************************************************)
(* MarkerGenerator.  A marker is a 20x20x3 array; a corner is the value of *)
(* a CornerPosition.                                                       *)
(***************************************************************************)
PATTERN_CHANNEL == 0
ERROR_CORRECTION_CHANNEL == 1
CHECKSUM_CHANNEL == 2

\* CornerPosition, in definition order
CornerPosition == <<"TL", "TR", "BL", "BR">>

Corners == {CornerPosition[k] : k \in 1..Len(CornerPosition)}

\* int(hashlib.md5(video_id.encode()).hexdigest()[:4], 16), for the video
\* ids of the runs (md5 is the library's)
Md5Head ==
    ("STEGANO_AR_2025" :> 58513) @@ ("TEST_VIDEO_2025" :> 23842) @@ ("" :> 54301)
    @@ ("demo" :> 65025) @@ ("video_1" :> 9537) @@ ("video_2" :> 31613)
    @@ ("clip" :> 63192) @@ ("a" :> 3265)

_generate_video_hash(video_id) == Md5Head[video_id]

\* v >> k for 0 <= v < 2^31
ShiftRight(v, k) == IF k >= 31 THEN 0 ELSE v \div (2 ^ k)

corner_id(corner) ==
    CASE corner = "TL" -> 0 [] corner = "TR" -> 1 [] corner = "BL" -> 2 [] corner = "BR" -> 3

\* MARKER_SIZE * MARKER_SIZE // 8 bytes of (video_hash << 2) | corner_id,
\* least-significant byte first
_create_pattern_data(video_hash, corner) ==
    LET pattern_value == video_hash * 4 + corner_id(corner)
    IN  [i \in 1..((MARKER_SIZE * MARKER_SIZE) \div 8) |->
            ShiftRight(pattern_value, (i - 1) * 8) % 256]

\* mutant: the shifted byte alone
_generate_error_correction_shift_only(pattern_data) ==
    [i \in 1..Len(pattern_data) |-> (pattern_data[i] * 2) % 256]

\* pattern_data[i] ^ ((pattern_data[i] << 1) & 0xFF)
_generate_error_correction(pattern_data) ==
    [i \in 1..Len(pattern_data) |-> Xor8(pattern_data[i], (pattern_data[i] * 2) % 256)]

RECURSIVE SumBytes(_, _)
SumBytes(bytes, i) == IF i > Len(bytes) THEN 0 ELSE bytes[i] + SumBytes(bytes, i + 1)

\* byte i is (checksum_val >> (i % 16)) & 0xFF
_calculate_checksum(pattern_data, error_correction) ==
    LET total == SumBytes(pattern_data, 1) + SumBytes(error_correction, 1)
        checksum_val == total % 65536
    IN  [i \in 1..Len(pattern_data) |-> ShiftRight(checksum_val, (i - 1) % 16) % 256]

\* pixel k = y * MARKER_SIZE + x takes bit k % 8 of data[k // 8] in the
\* least-significant bit of its channel, while data lasts
_embed_pattern_in_channel(marker, channel, data) ==
    LET pixels == Min(MARKER_SIZE * MARKER_SIZE, 8 * Len(data))
        written ==
            [i \in {Flat(marker, k \div MARKER_SIZE, k % MARKER_SIZE, channel) :
                        k \in 0..(pixels - 1)} |->
                LET k == i \div Channels(marker)
                IN  (At(marker, i) - (At(marker, i) % 2)) + BitOf(data[(k \div 8) + 1], k % 8)]
    IN  [marker EXCEPT !.px = written @@ @]

\* marker[y, x] = color for the pixels (y, x) given
Paint(marker, pixels, color) ==
    [marker EXCEPT !.px =
        [i \in {Flat(marker, p[1], p[2], c) : p \in pixels, c \in 0..2} |->
            color[(i % 3) + 1]] @@ @]

_add_detection_pattern(marker, corner) ==
    LET last == MARKER_SIZE - 1
        m1 == Paint(marker, {<<0, x>> : x \in 0..last}, <<255, 255, 255>>)
        m2 == Paint(m1, {<<last, x>> : x \in 0..last}, <<0, 0, 0>>)
        m3 == Paint(m2, {<<y, 0>> : y \in 0..last}, <<255, 255, 255>>)
        m4 == Paint(m3, {<<y, last>> : y \in 0..last}, <<0, 0, 0>>)
        diagonal == 0..(Min(5, MARKER_SIZE) - 1)
        mid == MARKER_SIZE \div 2
    IN  CASE corner = "TL" -> Paint(m4, {<<i, i>> : i \in diagonal}, <<255, 0, 0>>)
          [] corner = "TR" -> Paint(m4, {<<i, last - i>> : i \in diagonal}, <<0, 255, 0>>)
          [] corner = "BL" -> Paint(m4, {<<last - i, i>> : i \in diagonal}, <<0, 0, 255>>)
          [] corner = "BR" ->
                Paint(Paint(m4, {<<mid, x>> : x \in 0..last}, <<255, 255, 0>>),
                      {<<y, mid>> : y \in 0..last}, <<255, 255, 0>>)

_generate_corner_marker(video_hash, corner) ==
    LET marker == NewFrame(<<MARKER_SIZE, MARKER_SIZE, 3>>, [fill |-> 0, step |-> 0])
        pattern_data == _create_pattern_data(video_hash, corner)
        error_correction == _generate_error_correction(pattern_data)
        checksum == _calculate_checksum(pattern_data, error_correction)
        m1 == _embed_pattern_in_channel(marker, PATTERN_CHANNEL, pattern_data)
        m2 == _embed_pattern_in_channel(m1, ERROR_CORRECTION_CHANNEL, error_correction)
        m3 == _embed_pattern_in_channel(m2, CHECKSUM_CHANNEL, checksum)
    IN  _add_detection_pattern(m3, corner)

\* MarkerGenerator(video_id): the object after __init__
MarkerGenerator(video_id) ==
    LET video_hash == _generate_video_hash(video_id)
    IN  [video_id |-> video_id,
         video_hash |-> video_hash,
         markers |-> [corner \in Corners |-> _generate_corner_marker(video_hash, corner)]]

\* corner -> (x, y)
_calculate_marker_positions(frame_width, frame_height) ==
    ("TL" :> <<MARGIN_FROM_EDGE, MARGIN_FROM_EDGE>>)
    @@ ("TR" :> <<frame_width - MARGIN_FROM_EDGE - MARKER_SIZE, MARGIN_FROM_EDGE>>)
    @@ ("BL" :> <<MARGIN_FROM_EDGE, frame_height - MARGIN_FROM_EDGE - MARKER_SIZE>>)
    @@ ("BR" :> <<frame_width - MARGIN_FROM_EDGE - MARKER_SIZE,
                  frame_height - MARGIN_FROM_EDGE - MARKER_SIZE>>)

\* mutant: the tests x >= 0 and y >= 0 are left out
MarkerFits_unsigned(x, y, frame_width, frame_height) ==
    /\ x + MARKER_SIZE <= frame_width
    /\ y + MARKER_SIZE <= frame_height

\* x + MARKER_SIZE <= frame_width and y + MARKER_SIZE <= frame_height and x >= 0 and y >= 0
MarkerFits(x, y, frame_width, frame_height) ==
    /\ x + MARKER_SIZE <= frame_width
    /\ y + MARKER_SIZE <= frame_height
    /\ x >= 0
    /\ y >= 0

\* result_frame[y:y+MARKER_SIZE, x:x+MARKER_SIZE] = marker
StampMarker(f, marker, x, y) ==
    [f EXCEPT !.px =
        [i \in {Flat(f, y + my, x + mx, c) :
                    my \in 0..(MARKER_SIZE - 1), mx \in 0..(MARKER_SIZE - 1), c \in 0..2} |->
            LET fy == (i \div 3) \div Width(f)
                fx == (i \div 3) % Width(f)
            IN  At(marker, Flat(marker, fy - y, fx - x, i % 3))] @@ @]

\* the slice assignment of a marker seen from both arrays: the block of the
\* frame takes the marker's values (dst) and the marker is only read (src)
SliceAssign_into_marker(f, marker, x, y) ==
    [dst |-> f,
     src |-> [marker EXCEPT !.px =
                 [i \in 0..(Size(marker) - 1) |->
                     At(f, Flat(f, y + ((i \div 3) \div MARKER_SIZE),
                                x + ((i \div 3) % MARKER_SIZE), i % 3))]]]

SliceAssign(f, marker, x, y) ==
    [dst |-> StampMarker(f, marker, x, y), src |-> marker]

\* the loop over positions.items(), from corner k on.  m is [ret, log, exc,
\* markers]; assigning the 20x20x3 marker to a block that has not 3 channels
\* raises ValueError (no broadcast)
RECURSIVE StampFrom(_, _)
StampFrom(m, k) ==
    IF k > Len(CornerPosition) \/ m.exc THEN m
    ELSE LET corner == CornerPosition[k]
             position == _calculate_marker_positions(Width(m.ret), Height(m.ret))[corner]
         IN  IF MarkerFits(position[1], position[2], Width(m.ret), Height(m.ret))
             THEN IF Len(m.ret.shape) = 3 /\ m.ret.shape[3] = 3
                  THEN LET a == SliceAssign(m.ret, m.markers[corner],
                                            position[1], position[2])
                       IN  StampFrom([m EXCEPT !.ret = a.dst, !.markers[corner] = a.src],
                                     k + 1)
                  ELSE [m EXCEPT !.exc = TRUE]
             ELSE StampFrom([m EXCEPT !.log = Append(@, <<"warning", "Marker doesn't fit in frame",
                                                          corner>>)],
                            k + 1)

\* the result is [ret, input, log, exc, markers]: the array returned, the
\* caller's array after the call, the messages logged, whether an exception
\* left the call, self.markers after the call
embed_markers_in_frame(markers, frame) ==
    IF frame = None \/ Size(frame) = 0
    THEN [ret |-> return_frame(frame), input |-> frame,
          log |-> << <<"error", "Invalid frame provided", "frame">> >>, exc |-> FALSE,
          markers |-> markers]
    ELSE LET result_frame == ndarray_copy(frame)
             m == StampFrom([ret |-> result_frame.array, log |-> <<>>, exc |-> FALSE,
                             markers |-> markers], 1)
         IN  [ret |-> m.ret,
              input |-> IF result_frame.buf = "copy" THEN frame ELSE m.ret,
              log |-> m.log,
              exc |-> m.exc,
              markers |-> m.markers]

(***************************************************************************)
(* SubtitleEntry.overlaps_with, duration_ms and                            *)
(* SubtitleParser.validate_timing.  An issue is the kind of its message    *)
(* and the indices of the entries it names.                                *)
(***************************************************************************)
overlaps_with(self, other) ==
    ~(self.end_ms <= other.start_ms \/ other.end_ms <= self.start_ms)

duration_ms(self) == self.end_ms - self.start_ms

validate_timing(subtitles) ==
    IF subtitles = <<>> THEN << <<"No subtitles loaded">> >>
    ELSE LET IsShort(e) == duration_ms(e) < 500
             IsLong(e) == duration_ms(e) > 10000
             pairs == [i \in 1..(Len(subtitles) - 1) |-> <<subtitles[i], subtitles[i + 1]>>]
             Overlapping(p) == overlaps_with(p[1], p[2])
             overlap == SelectSeq(pairs, Overlapping)
             short == SelectSeq(subtitles, IsShort)
             long == SelectSeq(subtitles, IsLong)
         IN  [k \in 1..Len(overlap) |-> <<"overlap", overlap[k][1].index, overlap[k][2].index>>]
             \o [k \in 1..Len(short) |-> <<"very short duration", short[k].index>>]
             \o [k \in 1..Len(long) |-> <<"very long duration", long[k].index>>]

(***************************************************************************)
(* MarkerGenerator.validate_marker_embedding                               *)
(***************************************************************************)
\* a[start:stop] on an axis of n elements: negative indices count from the
\* end, and both ends are clipped to 0..n
PySlice(start, stop, n) ==
    LET first == IF start < 0 THEN Max(0, start + n) ELSE Min(start, n)
        last == IF stop < 0 THEN Max(0, stop + n) ELSE Min(stop, n)
    IN  [start |-> first, len |-> Max(0, last - first)]

\* the sum of d[lo..hi]
RECURSIVE SumRange(_, _, _)
SumRange(d, lo, hi) ==
    IF lo = hi THEN d[lo]
    ELSE LET mid == (lo + hi) \div 2
         IN  SumRange(d, lo, mid) + SumRange(d, mid + 1, hi)

\* np.mean(cv2.absdiff(marker_region, expected_marker)) > 50, for two arrays
\* of one shape
MeanDiffTooLarge(marker_region, expected_marker) ==
    LET diff == [i \in 0..(Size(expected_marker) - 1) |->
                    IF At(marker_region, i) >= At(expected_marker, i)
                    THEN At(marker_region, i) - At(expected_marker, i)
                    ELSE At(expected_marker, i) - At(marker_region, i)]
    IN  SumRange(diff, 0, Size(expected_marker) - 1) > 50 * Size(expected_marker)

\* the loop over positions.items(), from corner k on; the result is what the
\* function returns.  cv2.absdiff raises for arrays of different shapes (the
\* slice is short, or has not 3 channels), and the except branch returns
\* False
RECURSIVE ValidateFrom(_, _, _, _)
ValidateFrom(markers, original_frame, marked_frame, k) ==
    IF k > Len(CornerPosition) THEN TRUE
    ELSE LET frame_height == Height(original_frame)
             frame_width == Width(original_frame)
             corner == CornerPosition[k]
             position == _calculate_marker_positions(frame_width, frame_height)[corner]
             x == position[1]
             y == position[2]
         IN  IF x + MARKER_SIZE > frame_width \/ y + MARKER_SIZE > frame_height
             THEN ValidateFrom(markers, original_frame, marked_frame, k + 1)
             ELSE IF marked_frame = None \/ Len(marked_frame.shape) < 2 THEN FALSE
             ELSE LET rows == PySlice(y, y + MARKER_SIZE, Height(marked_frame))
                      cols == PySlice(x, x + MARKER_SIZE, Width(marked_frame))
                      marker_region ==
                          [shape |-> <<rows.len, cols.len>> \o SubSeq(marked_frame.shape, 3, 3),
                           cover |-> [fill |-> 0, step |-> 0],
                           px |-> [i \in 0..(rows.len * cols.len * Channels(marked_frame) - 1) |->
                                     At(marked_frame,
                                        Flat(marked_frame,
                                             rows.start + ((i \div Channels(marked_frame))
                                                              \div cols.len),
                                             cols.start + ((i \div Channels(marked_frame))
                                                              % cols.len),
                                             i % Channels(marked_frame)))]]
                  IN  IF marker_region.shape # markers[corner].shape THEN FALSE
                      ELSE IF MeanDiffTooLarge(marker_region, markers[corner]) THEN FALSE
                      ELSE ValidateFrom(markers, original_frame, marked_frame, k + 1)

\* original_frame.shape[:2] raises for None and for an array of fewer than 2
\* dimensions
validate_marker_embedding(markers, original_frame, marked_frame) ==
    IF original_frame = None \/ Len(original_frame.shape) < 2 THEN FALSE
    ELSE ValidateFrom(markers, original_frame, marked_frame, 1)

(***************************************************************************)
(* State.  The frame codec is exercised as its callers and tests do: a     *)
(* frame and the values to embed are given, embed_frame_data is called,    *)
(* the returned frame may have one embedded timing bit flipped, and the    *)
(* timing record and the subtitle region are read back.                    *)
(***************************************************************************)
VARIABLES
    pc,             \* position of the run
    frame,          \* the caller's frame (None or an array)
    frame_number,   \* the frame number given to embed_frame_data
    timestamp_ms,   \* the timestamp given to embed_frame_data
    subtitle_data,  \* None or Bytes(payload)
    result_frame,   \* the frame embed_frame_data returned
    log,            \* the messages embed_frame_data logged
    flipped,        \* the embedded timing bit that was flipped, or -1
    timing,         \* what extract_timing_data returned
    subtitle_read,  \* the bytes read back from the subtitle region
    \* the bit codec on a region of its own
    region,         \* the array given to _embed_data_in_region (written in place)
    data,           \* the bytes given to _embed_data_in_region
    extracted_data, \* what _extract_data_from_region returned
    \* active-subtitle selection
    subtitles,      \* the timeline: a sequence of SubtitleEntry
    video_fps,      \* the embedder's frame rate
    frame_index,    \* the frame number asked about
    time_ms,        \* the time given to get_subtitle_at_time
    selected,       \* what prepare_subtitle_data_for_frame returned
    at_time,        \* what get_subtitle_at_time returned
    \* markers and the encoding of a video
    video_id,             \* the video id given to MarkerGenerator / typed in the GUI
    marker_generator,     \* None or the MarkerGenerator object
    other_generator,      \* None or a MarkerGenerator object constructed later
    workers,              \* the workers processing frames: [pc, k, marked] each
    validated,            \* what validate_marker_embedding returned
    frame_with_markers,   \* what embed_markers_in_frame returned last
    frames,               \* the frames extracted from the video
    processed_frames,     \* the frames processed so far
    encoding_in_progress, \* the GUI's flag
    encode_button,        \* the state of the encode button: "normal" or "disabled"
    cancel_button,        \* the state of the cancel button
    outcome,              \* how the encoding thread ended
    \* the parity bytes of a marker
    pattern_bytes,        \* the pattern bytes given to _generate_error_correction
    parity_bytes,         \* the bytes it returned, as they are read back
    \* the capacity pre-check
    capacity_ok,          \* what validate_embedding_capacity returned
    \* the timing validation of the parser
    issues                \* what validate_timing returned

codecVars == <<frame, frame_number, timestamp_ms, subtitle_data, result_frame, log,
               flipped, timing, subtitle_read>>

regionVars == <<region, data, extracted_data>>

selectVars == <<subtitles, video_fps, frame_index, time_ms, selected, at_time>>

markerVars == <<video_id, marker_generator, other_generator, workers, validated,
                frame_with_markers, frames, processed_frames,
                encoding_in_progress, encode_button, cancel_button, outcome>>

otherVars == <<pattern_bytes, parity_bytes, capacity_ok, issues>>

vars == <<pc, codecVars, regionVars, otherVars, selectVars, markerVars>>

\* the variables a specification does not use keep these values
CodecIdle ==
    /\ frame = None
    /\ frame_number = U32(0, 0)
    /\ timestamp_ms = U32(0, 0)
    /\ subtitle_data = None
    /\ result_frame = None
    /\ log = <<>>
    /\ flipped = -1
    /\ timing = <<None, None>>
    /\ subtitle_read = <<>>

RegionIdle ==
    /\ region = None
    /\ data = <<>>
    /\ extracted_data = <<>>

SelectIdle ==
    /\ subtitles = <<>>
    /\ video_fps = 30
    /\ frame_index = 0
    /\ time_ms = 0
    /\ selected = None
    /\ at_time = None

OtherIdle ==
    /\ pattern_bytes = <<>>
    /\ parity_bytes = <<>>
    /\ capacity_ok = FALSE
    /\ issues = <<>>

MarkerIdle ==
    /\ video_id = ""
    /\ marker_generator = None
    /\ other_generator = None
    /\ workers = <<>>
    /\ validated = FALSE
    /\ frame_with_markers = None
    /\ frames = <<>>
    /\ processed_frames = <<>>
    /\ encoding_in_progress = FALSE
    /\ encode_button = "normal"
    /\ cancel_button = "disabled"
    /\ outcome = ""

\* what the runs of the frame codec leave alone
notCodec == <<regionVars, otherVars, selectVars, markerVars>>

\* what the runs of the bit codec leave alone
notRegion == <<codecVars, selectVars, markerVars, otherVars>>

\* what the runs of the subtitle selection leave alone
notSelect == <<codecVars, regionVars, otherVars, markerVars>>

(***************************************************************************)
(* Inputs of the frame codec runs.                                         *)
(***************************************************************************)
MaxPayloadLen == 8

\* np.zeros, np.full(255) and a frame of varying values
Covers == {[fill |-> 0, step |-> 0], [fill |-> 255, step |-> 0], [fill |-> 7, step |-> 37]}

\* frame shapes: 3-channel and 2-D (grayscale) arrays, an empty array
Shapes == {<<7, 10, 3>>, <<7, 12, 3>>, <<6, 10, 3>>, <<5, 10, 3>>, <<5, 3, 3>>, <<5, 2, 3>>,
           <<4, 10, 3>>, <<20, 8, 3>>, <<50, 2, 3>>, <<7, 40>>, <<40, 7>>,
           <<0, 10, 3>>}

Frames == {None} \cup {NewFrame(sh, cv) : sh \in Shapes, cv \in Covers}

\* (frame_number, timestamp_ms); the last does not fit 32 bits
TimingInputs == {<<U32(0, 0), U32(0, 0)>>, <<U32(0, 42), U32(0, 1400)>>,
                 <<U32(65535, 65535), U32(65535, 65535)>>,
                 <<U32(1, 0), U32(32768, 255)>>,
                 <<U32(65536, 0), U32(0, 33)>>}

Payload(len, seed) == [i \in 1..len |-> (seed + 101 * i) % 256]

SubtitleInputs ==
    {None} \cup {Bytes(Payload(len, 90)) : len \in 0..MaxPayloadLen}

Init ==
    /\ pc = "input"
    /\ frame \in Frames
    /\ \E tin \in TimingInputs : frame_number = tin[1] /\ timestamp_ms = tin[2]
    /\ subtitle_data \in SubtitleInputs
    /\ result_frame = None
    /\ log = <<>>
    /\ flipped = -1
    /\ timing = <<None, None>>
    /\ subtitle_read = <<>>
    /\ RegionIdle
    /\ OtherIdle
    /\ SelectIdle
    /\ MarkerIdle

(***************************************************************************)
(* The caller embeds the frame data.                                       *)
(***************************************************************************)
EmbedFrameData ==
    /\ pc = "input"
    /\ LET r == embed_frame_data(frame, frame_number, timestamp_ms, subtitle_data)
       IN  /\ result_frame' = r.ret
           /\ frame' = r.input
           /\ log' = r.log
    /\ pc' = "embedded"
    /\ UNCHANGED <<frame_number, timestamp_ms, subtitle_data, flipped, timing,
                   subtitle_read, notCodec>>

(***************************************************************************)
(* Corruption in transit: bit k of the 80 bits of the timing record's      *)
(* footprint is flipped in the returned frame.                             *)
(***************************************************************************)
TimingBits == 8 * (FRAME_NUMBER_SIZE + TIMESTAMP_SIZE + CHECKSUM_SIZE)

FlipFrameBit(f, k) ==
    LET i == k \div LSB_DEPTH
        b == k % LSB_DEPTH
        v == At(f, i)
    IN  [f EXCEPT !.px = (i :> (IF BitOf(v, b) = 1 THEN v - 2 ^ b ELSE v + 2 ^ b)) @@ @]

FlipBit(k) ==
    /\ pc = "embedded"
    /\ result_frame # None
    /\ Height(result_frame) >= TIMING_STRIP_HEIGHT
    /\ TIMING_STRIP_HEIGHT * Width(result_frame) * Channels(result_frame) * LSB_DEPTH
           >= TimingBits
    /\ result_frame' = FlipFrameBit(result_frame, k)
    /\ flipped' = k
    /\ pc' = "corrupted"
    /\ UNCHANGED <<frame, frame_number, timestamp_ms, subtitle_data, log, timing,
                   subtitle_read, notCodec>>

(***************************************************************************)
(* The reader extracts the timing record and reads the subtitle region     *)
(* back (the header and as many bytes as were given as payload).           *)
(***************************************************************************)
\* the bottom region of the format: rows height - max(1, height * 10 div 100) onwards
BottomRegion(f) == RowSlice(f, Height(f) - Max(1, (Height(f) * 10) \div 100), Height(f))

ReadSubtitleRegion(f, subtitle) ==
    IF f = None \/ subtitle = None THEN <<>>
    ELSE IF Len(f.shape) < 2 THEN <<>>
    ELSE _extract_data_from_region(f, BottomRegion(f), 6 + Len(subtitle.bytes))

Extract ==
    /\ pc \in {"embedded", "corrupted"}
    /\ timing' = extract_timing_data(result_frame)
    /\ subtitle_read' = ReadSubtitleRegion(result_frame, subtitle_data)
    /\ pc' = "extracted"
    /\ UNCHANGED <<frame, frame_number, timestamp_ms, subtitle_data, result_frame, log,
                   flipped, notCodec>>

Next ==
    \/ EmbedFrameData
    \/ \E k \in 0..(TimingBits - 1) : FlipBit(k)
    \/ Extract

Spec == Init /\ [][Next]_vars

(***************************************************************************)
(* The bit codec on a region of its own (specification SpecRegion): a      *)
(* region of 1 channel (2-D array) or 3 channels and a byte string are     *)
(* given, _embed_data_in_region writes the region in place and             *)
(* _extract_data_from_region reads len(data) bytes back.                   *)
(***************************************************************************)
MaxRegionHeight == 2
MaxRegionWidth == 4
MaxDataLen == 3

RegionShapes ==
    {<<h, w>> : h \in 1..MaxRegionHeight, w \in 1..MaxRegionWidth}
    \cup {<<h, w, 3>> : h \in 1..MaxRegionHeight, w \in 1..MaxRegionWidth}

RECURSIVE ByteStrings(_)
ByteStrings(len) ==
    IF len = 0 THEN {<<>>}
    ELSE ByteStrings(len - 1)
         \cup {Append(b, v) : b \in {x \in ByteStrings(len - 1) : Len(x) = len - 1},
                              v \in {0, 141, 255}}

WholeRegion(f) == RowSlice(f, 0, Height(f))

InitRegion ==
    /\ pc = "region"
    /\ region \in {NewFrame(sh, cv) : sh \in RegionShapes, cv \in Covers}
    /\ data \in {b \in ByteStrings(MaxDataLen) :
                     Len(b) <= RegionCapacityBytes(region, WholeRegion(region)) + 1}
    /\ extracted_data = <<>>
    /\ CodecIdle
    /\ SelectIdle
    /\ MarkerIdle
    /\ OtherIdle

EmbedRegion ==
    /\ pc = "region"
    /\ region' = _embed_data_in_region([frame |-> region, log |-> <<>>, exc |-> FALSE],
                                       WholeRegion(region), data, "region").frame
    /\ pc' = "region_embedded"
    /\ UNCHANGED <<data, extracted_data, notRegion>>

ExtractRegion ==
    /\ pc = "region_embedded"
    /\ extracted_data' = _extract_data_from_region(region, WholeRegion(region), Len(data))
    /\ pc' = "region_extracted"
    /\ UNCHANGED <<region, data, notRegion>>

NextRegion == EmbedRegion \/ ExtractRegion

SpecRegion == InitRegion /\ [][NextRegion]_vars

(***************************************************************************)
(* Active-subtitle selection (specification SpecSelect): the embedder is   *)
(* asked for the subtitle data of a frame, and the parser for the subtitle *)
(* at a time.                                                              *)
(***************************************************************************)
MaxFrameNumber == 210

Entry(start_ms, end_ms, text, index) ==
    [start_ms |-> start_ms, end_ms |-> end_ms, text |-> text, index |-> index]

\* texts "a", "b", "c"
Timelines ==
    { <<>>,
      <<Entry(0, 3000, <<97>>, 1), Entry(3500, 7000, <<98>>, 2)>>,
      <<Entry(0, 4000, <<97>>, 1), Entry(3000, 7000, <<98>>, 2)>>,
      <<Entry(3000, 7000, <<98>>, 1), Entry(0, 4000, <<97>>, 2)>>,
      <<Entry(1000, 8125, <<97>>, 1), Entry(8125, 8750, <<98>>, 2),
        Entry(8000, 9000, <<99>>, 3)>> }

FrameRates == {24, 25, 30}

QueryTimes == {0, 2999, 3000, 3499, 3500, 6999, 7000, 8124, 8125}

InitSelect ==
    /\ pc = "timeline"
    /\ subtitles \in Timelines
    /\ video_fps \in FrameRates
    /\ frame_index \in 0..MaxFrameNumber
    /\ time_ms = 0
    /\ selected = None
    /\ at_time = None
    /\ CodecIdle
    /\ RegionIdle
    /\ OtherIdle
    /\ MarkerIdle

PrepareSubtitleData ==
    /\ pc = "timeline"
    /\ selected' = prepare_subtitle_data_for_frame(subtitles, frame_index, video_fps)
    /\ pc' = "prepared"
    /\ UNCHANGED <<subtitles, video_fps, frame_index, time_ms, at_time, notSelect>>

GetSubtitleAtTime(t) ==
    /\ pc = "prepared"
    /\ time_ms' = t
    /\ at_time' = get_subtitle_at_time(subtitles, t)
    /\ pc' = "looked_up"
    /\ UNCHANGED <<subtitles, video_fps, frame_index, selected, notSelect>>

NextSelect ==
    \/ PrepareSubtitleData
    \/ \E t \in QueryTimes : GetSubtitleAtTime(t)

SpecSelect == InitSelect /\ [][NextSelect]_vars

(***************************************************************************)
(* Markers (specification SpecMarker): a MarkerGenerator is constructed    *)
(* for a video id and embed_markers_in_frame is called on a frame.         *)
(***************************************************************************)
VideoIds == DOMAIN Md5Head

\* frames the four markers fit in, frames too small for some or all of
\* them, a 2-D frame, an empty array
MarkerShapes == {<<200, 200, 3>>, <<80, 80, 3>>, <<720, 1280, 3>>, <<610, 80, 3>>,
                 <<50, 50, 3>>, <<100, 70, 3>>, <<70, 100, 3>>, <<100, 130, 3>>,
                 <<79, 80, 3>>,
                 <<90, 200>>, <<0, 10, 3>>}

MarkerFrames ==
    {None} \cup {NewFrame(sh, cv) : sh \in MarkerShapes,
                                    cv \in {[fill |-> 0, step |-> 0], [fill |-> 7, step |-> 37]}}

InitMarker ==
    /\ pc = "construct"
    /\ video_id \in VideoIds
    /\ frame \in MarkerFrames
    /\ marker_generator = None
    /\ other_generator = None
    /\ workers = <<>>
    /\ validated = FALSE
    /\ frame_with_markers = None
    /\ frames = <<>>
    /\ processed_frames = <<>>
    /\ encoding_in_progress = FALSE
    /\ encode_button = "normal"
    /\ cancel_button = "disabled"
    /\ outcome = ""
    /\ frame_number = U32(0, 0)
    /\ timestamp_ms = U32(0, 0)
    /\ subtitle_data = None
    /\ result_frame = None
    /\ log = <<>>
    /\ flipped = -1
    /\ timing = <<None, None>>
    /\ subtitle_read = <<>>
    /\ RegionIdle
    /\ OtherIdle
    /\ SelectIdle

NewMarkerGenerator ==
    /\ pc = "construct"
    /\ marker_generator' = MarkerGenerator(video_id)
    /\ pc' = "constructed"
    /\ UNCHANGED <<video_id, other_generator, workers, validated, frame_with_markers, frames, processed_frames,
                   encoding_in_progress, encode_button, cancel_button, outcome, codecVars, regionVars, otherVars, selectVars>>

EmbedMarkersInFrame ==
    /\ pc \in {"constructed", "extracted"}
    /\ LET r == embed_markers_in_frame(marker_generator.markers, frame)
       IN  /\ frame_with_markers' = IF r.exc THEN None ELSE r.ret
           /\ frame' = r.input
           /\ log' = r.log
           /\ marker_generator' = [marker_generator EXCEPT !.markers = r.markers]
           /\ pc' = IF r.exc THEN "raised" ELSE "marked"
    /\ UNCHANGED <<video_id, other_generator, workers, validated, frames, processed_frames,
                   encoding_in_progress, encode_button, cancel_button, outcome, frame_number, timestamp_ms,
                   subtitle_data, result_frame, flipped, timing, subtitle_read,
                   regionVars, otherVars, selectVars>>

\* a second, independent MarkerGenerator(id) is constructed after the first
\* one has stamped a frame
NewOtherGenerator(id) ==
    /\ pc \in {"marked", "raised"}
    /\ other_generator' = MarkerGenerator(id)
    /\ pc' = "second"
    /\ UNCHANGED <<video_id, marker_generator, workers, validated, frame_with_markers, frames,
                   processed_frames, encoding_in_progress, encode_button, cancel_button, outcome, codecVars, regionVars, otherVars,
                   selectVars>>

\* validate_marker_embedding(frame, marked_frame) with the frame given to
\* embed_markers_in_frame and the frame it returned
ValidateMarkerEmbedding ==
    /\ pc = "marked"
    /\ validated' = validate_marker_embedding(marker_generator.markers, frame,
                                              frame_with_markers)
    /\ pc' = "validated"
    /\ UNCHANGED <<video_id, marker_generator, other_generator, workers, frame_with_markers,
                   frames, processed_frames, encoding_in_progress, encode_button, cancel_button, outcome, codecVars,
                   regionVars, otherVars, selectVars>>

NextMarker ==
    \/ NewMarkerGenerator
    \/ EmbedMarkersInFrame
    \/ \E id \in {video_id, "demo"} : NewOtherGenerator(id)
    \/ ValidateMarkerEmbedding

SpecMarker == InitMarker /\ [][NextMarker]_vars

(***************************************************************************)
(* Encoding a video (specification SpecPipeline): EncoderGUI.start_encoding *)
(* starts encode_video_thread, which stamps the markers and embeds the     *)
(* frame data in each extracted frame; cancel_encoding may clear the flag  *)
(* at any time; encoding_finished runs when the thread has ended.          *)
(***************************************************************************)
MaxFrames == 2

ToU32(n) == U32(n \div 65536, n % 65536)

\* the frames of a video have one shape
PipelineShapes == {<<610, 80, 3>>, <<720, 1280, 3>>, <<100, 100, 3>>, <<50, 50, 3>>,
                   <<90, 200>>}

Videos ==
    {<<>>} \cup {[k \in 1..MaxFrames |-> NewFrame(sh, [fill |-> 7, step |-> 37 + k])] :
                    sh \in PipelineShapes}

\* no subtitle; a short text on the first frames; a text of 40 bytes from
\* the second frame on
PipelineTimelines ==
    { <<>>,
      <<Entry(0, 1000, <<97>>, 1)>>,
      <<Entry(40, 5000, Payload(40, 65), 1)>> }

InitPipeline ==
    /\ pc = "ready"
    /\ video_id \in {"", "TEST_VIDEO_2025"}
    /\ frames \in Videos
    /\ subtitles \in PipelineTimelines
    /\ video_fps \in {25, 30}
    /\ marker_generator = None
    /\ other_generator = None
    /\ workers = <<>>
    /\ validated = FALSE
    /\ frame_with_markers = None
    /\ processed_frames = <<>>
    /\ encoding_in_progress = FALSE
    /\ encode_button = "normal"
    /\ cancel_button = "disabled"
    /\ outcome = ""
    /\ frame_index = 0
    /\ time_ms = 0
    /\ selected = None
    /\ at_time = None
    /\ CodecIdle
    /\ RegionIdle
    /\ OtherIdle

\* what the steps of the encoding leave alone
notPipeline == <<frame, result_frame, flipped, timing, subtitle_read, regionVars, otherVars,
                 time_ms, selected, at_time, video_id, other_generator, workers, validated, frames,
                 subtitles,
                 video_fps>>

\* start_encoding: the flag and the buttons are set and the thread started
StartEncoding ==
    /\ pc = "ready"
    /\ encode_button = "normal"
    /\ encoding_in_progress' = TRUE
    /\ encode_button' = "disabled"
    /\ cancel_button' = "normal"
    /\ pc' = "thread"
    /\ UNCHANGED <<marker_generator, frame_with_markers, processed_frames, outcome,
                   frame_index, frame_number, timestamp_ms, subtitle_data, log, notPipeline>>

\* encode_video_thread up to the loop: the marker generator is made and the
\* frames are extracted
ThreadBegin ==
    /\ pc = "thread"
    /\ marker_generator' = MarkerGenerator(IF video_id = "" THEN "STEGANO_AR_2025" ELSE video_id)
    /\ IF frames = <<>>
       THEN /\ outcome' = "no frames"
            /\ pc' = "finally"
       ELSE /\ outcome' = outcome
            /\ pc' = "encoding"
    /\ frame_index' = 0
    /\ processed_frames' = <<>>
    /\ UNCHANGED <<frame_with_markers, encoding_in_progress, encode_button, cancel_button,
                   frame_number, timestamp_ms, subtitle_data, log, notPipeline>>

\* one turn of the loop over the frames
ProcessFrame ==
    /\ pc = "encoding"
    /\ frame_index < Len(frames)
    /\ IF ~encoding_in_progress
       THEN /\ outcome' = "cancelled"
            /\ pc' = "finally"
            /\ UNCHANGED <<marker_generator, frame_with_markers, processed_frames,
                           frame_index, frame_number, timestamp_ms, subtitle_data, log>>
       ELSE LET marked == embed_markers_in_frame(marker_generator.markers,
                                                 frames[frame_index + 1])
                payload == prepare_subtitle_data_for_frame(subtitles, frame_index, video_fps)
                stamp == ToU32(IntOfProduct(frame_index, frame_duration_ms(video_fps)))
                r == embed_frame_data(marked.ret, ToU32(frame_index), stamp, payload)
            IN  IF marked.exc
                THEN /\ outcome' = "failed"
                     /\ pc' = "finally"
                     /\ log' = log \o marked.log
                     /\ marker_generator' = [marker_generator EXCEPT
                                                !.markers = marked.markers]
                     /\ UNCHANGED <<frame_with_markers, processed_frames, frame_index,
                                    frame_number, timestamp_ms, subtitle_data>>
                ELSE /\ frame_with_markers' = marked.ret
                     /\ subtitle_data' = payload
                     /\ frame_number' = ToU32(frame_index)
                     /\ timestamp_ms' = stamp
                     /\ processed_frames' = Append(processed_frames, r.ret)
                     /\ log' = log \o marked.log \o r.log
                     /\ frame_index' = frame_index + 1
                     /\ marker_generator' = [marker_generator EXCEPT
                                                !.markers = marked.markers]
                     /\ UNCHANGED <<outcome, pc>>
    /\ UNCHANGED <<encoding_in_progress, encode_button, cancel_button, notPipeline>>

\* after the loop: the thread returns when the encoding was cancelled
LoopEnd ==
    /\ pc = "encoding"
    /\ frame_index = Len(frames)
    /\ IF encoding_in_progress
       THEN /\ pc' = "saving"
            /\ outcome' = outcome
       ELSE /\ pc' = "finally"
            /\ outcome' = "cancelled"
    /\ UNCHANGED <<marker_generator, frame_with_markers, processed_frames,
                   encoding_in_progress, encode_button, cancel_button, frame_index,
                   frame_number, timestamp_ms, subtitle_data, log, notPipeline>>

\* save_frames_as_video writes the processed frames and returns success,
\* which is reported
SaveFramesAsVideo(success) ==
    /\ pc = "saving"
    /\ outcome' = IF success THEN "saved" ELSE "save failed"
    /\ pc' = "finally"
    /\ UNCHANGED <<marker_generator, frame_with_markers, processed_frames,
                   encoding_in_progress, encode_button, cancel_button, frame_index,
                   frame_number, timestamp_ms, subtitle_data, log, notPipeline>>

\* cancel_encoding, the command of the cancel button
CancelEncoding ==
    /\ cancel_button = "normal"
    /\ encoding_in_progress' = FALSE
    /\ UNCHANGED <<pc, marker_generator, frame_with_markers, processed_frames, outcome,
                   encode_button, cancel_button, frame_index, frame_number, timestamp_ms,
                   subtitle_data, log, notPipeline>>

\* encoding_finished, scheduled by the thread's finally clause
EncodingFinished ==
    /\ pc = "finally"
    /\ encoding_in_progress' = FALSE
    /\ encode_button' = "normal"
    /\ cancel_button' = "disabled"
    /\ pc' = "finished"
    /\ UNCHANGED <<marker_generator, frame_with_markers, processed_frames, outcome,
                   frame_index, frame_number, timestamp_ms, subtitle_data, log, notPipeline>>

NextPipeline ==
    \/ StartEncoding
    \/ ThreadBegin
    \/ ProcessFrame
    \/ LoopEnd
    \/ \E success \in BOOLEAN : SaveFramesAsVideo(success)
    \/ CancelEncoding
    \/ EncodingFinished

SpecPipeline == InitPipeline /\ [][NextPipeline]_vars

(***************************************************************************)
(* Frames processed by several workers (specification SpecWorkers): the    *)
(* body of the loop of encode_video_thread is run for each frame by any of *)
(* the workers, in any order,        its two calls interleaved with the    *)
(* other workers' calls.  The workers share the marker generator, the      *)
(* embedder, the extracted frames and the timeline.                        *)
(***************************************************************************)
Workers == {"w1", "w2"}

WorkerShapes == {<<100, 100, 3>>, <<610, 80, 3>>}

WorkerVideos ==
    {[k \in 1..MaxFrames |-> NewFrame(sh, [fill |-> 7, step |-> 37 + k])] : sh \in WorkerShapes}

InitWorkers ==
    /\ pc = "workers"
    /\ video_id = "TEST_VIDEO_2025"
    /\ frames \in WorkerVideos
    /\ subtitles \in PipelineTimelines \ {<<>>}
    /\ video_fps = 30
    /\ marker_generator = MarkerGenerator(video_id)
    /\ other_generator = None
    /\ workers = [w \in Workers |-> [pc |-> "idle", k |-> 0, marked |-> None]]
    /\ validated = FALSE
    /\ frame_with_markers = None
    /\ processed_frames = [k \in 1..Len(frames) |-> None]
    /\ encoding_in_progress = TRUE
    /\ encode_button = "disabled"
    /\ cancel_button = "normal"
    /\ outcome = ""
    /\ frame_index = 0
    /\ time_ms = 0
    /\ selected = None
    /\ at_time = None
    /\ CodecIdle
    /\ RegionIdle
    /\ OtherIdle

\* what the workers leave alone
notWorkers == <<pc, codecVars, regionVars, otherVars, selectVars, video_id, other_generator, validated,
                encoding_in_progress, encode_button, cancel_button, outcome>>

\* worker w takes frame k (the i-th frame has k = i + 1), which no worker
\* has taken yet
WorkerTake(w, k) ==
    /\ workers[w].pc = "idle"
    /\ processed_frames[k] = None
    /\ \A v \in Workers : workers[v].k # k
    /\ workers' = [workers EXCEPT ![w] = [pc |-> "stamp", k |-> k, marked |-> None]]
    /\ UNCHANGED <<marker_generator, frame_with_markers, frames, processed_frames, notWorkers>>

\* frame_with_markers = self.marker_generator.embed_markers_in_frame(frame)
WorkerStamp(w) ==
    /\ workers[w].pc = "stamp"
    /\ LET r == embed_markers_in_frame(marker_generator.markers, frames[workers[w].k])
       IN  /\ workers' = [workers EXCEPT ![w].pc = "embed", ![w].marked = r.ret]
           /\ frame_with_markers' = r.ret
           /\ frames' = [frames EXCEPT ![workers[w].k] = r.input]
           /\ marker_generator' = [marker_generator EXCEPT !.markers = r.markers]
    /\ UNCHANGED <<processed_frames, notWorkers>>

\* the frame_with_markers given to embed_frame_data is the local variable of
\* the loop body that took the result of embed_markers_in_frame
WorkerInput_shared(w) == frame_with_markers

WorkerInput(w) == workers[w].marked

\* subtitle_data, timestamp_ms and processed_frame of the loop body
WorkerEmbed(w) ==
    /\ workers[w].pc = "embed"
    /\ LET i == workers[w].k - 1
           payload == prepare_subtitle_data_for_frame(subtitles, i, video_fps)
           stamp == ToU32(IntOfProduct(i, frame_duration_ms(video_fps)))
           r == embed_frame_data(WorkerInput(w), ToU32(i), stamp, payload)
       IN  /\ processed_frames' = [processed_frames EXCEPT ![i + 1] = r.ret]
           /\ workers' = [workers EXCEPT ![w] = [pc |-> "idle", k |-> 0, marked |-> None]]
    /\ UNCHANGED <<marker_generator, frame_with_markers, frames, notWorkers>>

NextWorkers ==
    \/ \E w \in Workers, k \in 1..Len(frames) : WorkerTake(w, k)
    \/ \E w \in Workers : WorkerStamp(w)
    \/ \E w \in Workers : WorkerEmbed(w)

SpecWorkers == InitWorkers /\ [][NextWorkers]_vars

(***************************************************************************)
(* Calls with an invalid frame (specification SpecInvalid), as in          *)
(* test_error_handling: a frame that is None or an empty array, or a valid *)
(* one, is given to embed_frame_data, what was returned is given to        *)
(* extract_timing_data, and the frame is given to embed_markers_in_frame.  *)
(***************************************************************************)
\* np.array([]), arrays without rows or without columns, two valid frames
InvalidShapes == {<<0>>, <<0, 10, 3>>, <<10, 0, 3>>, <<0, 0>>}

InvalidFrames ==
    {None} \cup {NewFrame(sh, [fill |-> 7, step |-> 37]) :
                    sh \in InvalidShapes \cup {<<7, 10, 3>>, <<100, 100, 3>>}}

InitInvalid ==
    /\ pc = "input"
    /\ frame \in InvalidFrames
    /\ \E tin \in TimingInputs : frame_number = tin[1] /\ timestamp_ms = tin[2]
    /\ subtitle_data \in {None, Bytes(<<>>), Bytes(Payload(3, 90))}
    /\ result_frame = None
    /\ log = <<>>
    /\ flipped = -1
    /\ timing = <<None, None>>
    /\ subtitle_read = <<>>
    /\ video_id = "TEST_VIDEO_2025"
    /\ marker_generator = MarkerGenerator(video_id)
    /\ other_generator = None
    /\ workers = <<>>
    /\ validated = FALSE
    /\ frame_with_markers = None
    /\ frames = <<>>
    /\ processed_frames = <<>>
    /\ encoding_in_progress = FALSE
    /\ encode_button = "normal"
    /\ cancel_button = "disabled"
    /\ outcome = ""
    /\ RegionIdle
    /\ OtherIdle
    /\ SelectIdle

NextInvalid == EmbedFrameData \/ Extract \/ EmbedMarkersInFrame

SpecInvalid == InitInvalid /\ [][NextInvalid]_vars

(***************************************************************************)
(* The parity bytes of a marker (specification SpecParity): pattern bytes  *)
(* are given to _generate_error_correction, and one bit of a pattern byte  *)
(* or of a parity byte is flipped afterwards.                              *)
(***************************************************************************)
\* every byte value on its own, and the pattern bytes of a marker
PatternInputs ==
    {<<b>> : b \in 0..255} \cup {_create_pattern_data(_generate_video_hash("a"), "BR")}

InitParity ==
    /\ pc = "pattern"
    /\ pattern_bytes \in PatternInputs
    /\ parity_bytes = <<>>
    /\ capacity_ok = FALSE
    /\ issues = <<>>
    /\ CodecIdle
    /\ RegionIdle
    /\ SelectIdle
    /\ MarkerIdle

notParity == <<codecVars, regionVars, selectVars, markerVars>>

GenerateErrorCorrection ==
    /\ pc = "pattern"
    /\ parity_bytes' = _generate_error_correction(pattern_bytes)
    /\ pc' = "parity_generated"
    /\ UNCHANGED <<pattern_bytes, capacity_ok, issues, notParity>>

\* byte b with bit j flipped
FlipByteBit(b, j) == IF BitOf(b, j) = 1 THEN b - 2 ^ j ELSE b + 2 ^ j

FlipPatternBit(i, j) ==
    /\ pc = "parity_generated"
    /\ i \in 1..Len(pattern_bytes)
    /\ pattern_bytes' = [pattern_bytes EXCEPT ![i] = FlipByteBit(@, j)]
    /\ pc' = "parity_flipped"
    /\ UNCHANGED <<parity_bytes, capacity_ok, issues, notParity>>

FlipParityBit(i, j) ==
    /\ pc = "parity_generated"
    /\ i \in 1..Len(parity_bytes)
    /\ parity_bytes' = [parity_bytes EXCEPT ![i] = FlipByteBit(@, j)]
    /\ pc' = "parity_flipped"
    /\ UNCHANGED <<pattern_bytes, capacity_ok, issues, notParity>>

NextParity ==
    \/ GenerateErrorCorrection
    \/ \E i \in 1..(MARKER_SIZE * MARKER_SIZE) \div 8, j \in 0..7 : FlipPatternBit(i, j)
    \/ \E i \in 1..(MARKER_SIZE * MARKER_SIZE) \div 8, j \in 0..7 : FlipParityBit(i, j)

SpecParity == InitParity /\ [][NextParity]_vars

(***************************************************************************)
(* The capacity pre-check (specification SpecCapacity): the caller asks    *)
(* validate_embedding_capacity for the width and height of its frames,     *)
(* then embeds the frame data in a frame of that size and reads the timing *)
(* record back.                                                            *)
(***************************************************************************)
\* 720p and the very small frame of test_embedding_validation, and frames
\* around the 5 rows and the 10 bytes of the timing strip
CapacityShapes == {<<720, 1280, 3>>, <<50, 50, 3>>, <<7, 10, 3>>, <<5, 10, 3>>, <<4, 10, 3>>,
                   <<5, 3, 3>>, <<5, 2, 3>>, <<20, 1, 3>>}

InitCapacity ==
    /\ pc = "precheck"
    /\ frame \in {NewFrame(sh, cv) : sh \in CapacityShapes,
                                     cv \in {[fill |-> 0, step |-> 0], [fill |-> 7, step |-> 37]}}
    /\ \E tin \in TimingInputs : frame_number = tin[1] /\ timestamp_ms = tin[2]
    /\ subtitle_data \in {None, Bytes(Payload(3, 90))}
    /\ result_frame = None
    /\ log = <<>>
    /\ flipped = -1
    /\ timing = <<None, None>>
    /\ subtitle_read = <<>>
    /\ pattern_bytes = <<>>
    /\ parity_bytes = <<>>
    /\ capacity_ok = FALSE
    /\ issues = <<>>
    /\ RegionIdle
    /\ SelectIdle
    /\ MarkerIdle

ValidateEmbeddingCapacity ==
    /\ pc = "precheck"
    /\ capacity_ok' = validate_embedding_capacity(Width(frame), Height(frame))
    /\ pc' = "input"
    /\ UNCHANGED <<codecVars, regionVars, selectVars, markerVars, pattern_bytes, parity_bytes,
                   issues>>

NextCapacity == ValidateEmbeddingCapacity \/ EmbedFrameData \/ Extract

SpecCapacity == InitCapacity /\ [][NextCapacity]_vars

(***************************************************************************)
(* The timing validation (specification SpecTiming): a subtitle list is    *)
(* loaded, in the order of the file, and validate_timing is called.        *)
(***************************************************************************)
MaxEntries == 3

\* start and end times: durations under 500 ms and over 10 s occur
TimePoints == {0, 400, 1000, 2000, 3000, 14000}

\* the lists of up to MaxEntries entries, numbered from 1 as the loaders do
LoadedLists ==
    UNION {[1..n -> {<<a, b>> \in TimePoints \X TimePoints : a < b}] : n \in 0..MaxEntries}

InitTiming ==
    /\ pc = "loaded"
    /\ \E times \in LoadedLists :
            subtitles = [i \in 1..Len(times) |->
                            Entry(times[i][1], times[i][2], <<96 + i>>, i)]
    /\ video_fps = 30
    /\ frame_index = 0
    /\ time_ms = 0
    /\ selected = None
    /\ at_time = None
    /\ pattern_bytes = <<>>
    /\ parity_bytes = <<>>
    /\ capacity_ok = FALSE
    /\ issues = <<>>
    /\ CodecIdle
    /\ RegionIdle
    /\ MarkerIdle

ValidateTiming ==
    /\ pc = "loaded"
    /\ issues' = validate_timing(subtitles)
    /\ pc' = "timing_validated"
    /\ UNCHANGED <<codecVars, regionVars, selectVars, markerVars, pattern_bytes, parity_bytes,
                   capacity_ok>>

NextTiming == ValidateTiming

SpecTiming == InitTiming /\ [][NextTiming]_vars

(***************************************************************************)
(* Successive calls of embed_frame_data (specification SpecChain): each    *)
(* call is given the frame the previous call returned, with a record of    *)
(* its own; the reader may extract the timing record after any call.       *)
(***************************************************************************)
\* the strip of the 5x2x3 frame holds 7 bytes only
ChainShapes == {<<7, 10, 3>>, <<20, 8, 3>>, <<5, 2, 3>>}

ChainFrames ==
    {NewFrame(sh, cv) : sh \in ChainShapes,
                        cv \in {[fill |-> 0, step |-> 0], [fill |-> 7, step |-> 37]}}

ChainSubtitles == {None, Bytes(Payload(1, 90)), Bytes(Payload(3, 17))}

\* (frame_number, timestamp_ms); the last does not fit 32 bits
ChainTimings == {<<U32(0, 42), U32(0, 1400)>>, <<U32(65535, 65535), U32(65535, 65535)>>,
                 <<U32(65536, 0), U32(0, 33)>>}

InitChain ==
    /\ pc = "input"
    /\ frame \in ChainFrames
    /\ \E tin \in ChainTimings : frame_number = tin[1] /\ timestamp_ms = tin[2]
    /\ subtitle_data \in ChainSubtitles
    /\ result_frame = None
    /\ log = <<>>
    /\ flipped = -1
    /\ timing = <<None, None>>
    /\ subtitle_read = <<>>
    /\ RegionIdle
    /\ OtherIdle
    /\ SelectIdle
    /\ MarkerIdle

\* the next call: embed_frame_data(result_frame, n, t, subtitle)
EmbedAgain(tin, subtitle) ==
    /\ pc \in {"embedded", "extracted"}
    /\ LET r == embed_frame_data(result_frame, tin[1], tin[2], subtitle)
       IN  /\ result_frame' = r.ret
           /\ frame' = r.input
           /\ log' = r.log
    /\ frame_number' = tin[1]
    /\ timestamp_ms' = tin[2]
    /\ subtitle_data' = subtitle
    /\ pc' = "embedded"
    /\ UNCHANGED <<flipped, timing, subtitle_read, notCodec>>

NextChain ==
    \/ EmbedFrameData
    \/ \E tin \in ChainTimings, subtitle \in ChainSubtitles : EmbedAgain(tin, subtitle)
    \/ Extract

SpecChain == InitChain /\ [][NextChain]_vars

(***************************************************************************)
(* Properties of the frame codec (specification Spec).                     *)
(***************************************************************************)
\* the call was given an array with elements and values that fit 32 bits
ValidCall ==
    /\ frame # None
    /\ Size(frame) > 0
    /\ frame_number.hi <= 65535
    /\ timestamp_ms.hi <= 65535

\* capacity in bytes of the top 5 rows at 2 bits per channel
StripBytes(f) == (5 * Width(f) * Channels(f) * 2) \div 8

\* capacity in bytes of the bottom region at 2 bits per channel
BottomBytes(f) == (BottomRegion(f).rows * Width(f) * Channels(f) * 2) \div 8

ThreeChannel(f) == Len(f.shape) = 3 /\ f.shape[3] = 3

\* the 6-byte header (length u32, crc16 u16, little-endian) and the payload
ExpectedSubtitleBytes(payload) ==
    << Len(payload) % 256, (Len(payload) \div 256) % 256, (Len(payload) \div 65536) % 256,
       Len(payload) \div 16777216, crc32(payload)[2] % 256, crc32(payload)[2] \div 256 >>
    \o payload

CleanRead == pc = "extracted" /\ flipped = -1

\* C1: for a 3-channel frame of at least 5 rows whose timing strip holds at
\* least 10 bytes and values in 0..2^32-1, extract_timing_data of the frame
\* embed_frame_data returned is exactly (frame_number, timestamp_ms).
C1_TimingRoundTrip ==
    (/\ CleanRead
     /\ ValidCall
     /\ ThreeChannel(frame)
     /\ Height(frame) >= 5
     /\ StripBytes(frame) >= 10)
    => timing = <<frame_number, timestamp_ms>>

C1_Witness ==
    /\ CleanRead
    /\ ValidCall
    /\ ThreeChannel(frame)
    /\ frame_number = U32(65535, 65535)
    /\ timing = <<frame_number, timestamp_ms>>

\* C3: once a timing record is embedded, flipping any single one of its 80
\* embedded bits makes extract_timing_data return (None, None).
C3_SingleFlipDetected ==
    (/\ pc = "extracted"
     /\ flipped >= 0
     /\ ValidCall
     /\ Height(frame) >= 5
     /\ StripBytes(frame) >= 10)
    => timing = <<None, None>>

C3_Witness ==
    /\ pc = "extracted"
    /\ flipped = 37
    /\ ValidCall
    /\ StripBytes(frame) >= 10
    /\ timestamp_ms = U32(0, 1400)
    /\ timing = <<None, None>>

\* the call reached _embed_data_in_region with a subtitle record
SubtitleAttempted ==
    /\ CleanRead
    /\ ValidCall
    /\ Truthy(subtitle_data)
    /\ Height(frame) - Max(1, (Height(frame) * 10) \div 100) > 5

SubtitleRejected ==
    /\ \E k \in 1..Len(log) : log[k] = <<"error", "Data too large", "subtitle_region">>
    /\ \A i \in (5 * Width(frame) * Channels(frame))..(Size(frame) - 1) :
           At(result_frame, i) = At(frame, i)

InFootprint(f, subtitle, i) ==
    \/ Height(f) >= 5 /\ i < 40
    \/ /\ Truthy(subtitle)
       /\ i >= BottomRegion(f).row0 * Width(f) * Channels(f)
       /\ i < BottomRegion(f).row0 * Width(f) * Channels(f) + 4 * (6 + Len(subtitle.bytes))

\* C6: embed_frame_data leaves its input frame as it was and returns a frame
\* of the same shape whose elements keep their high 6 bits and differ from
\* the input only inside the footprint of the embedded bits.
C6_InputKeptHighBitsKept ==
    [][(pc = "input" /\ pc' = "embedded") =>
          /\ frame = None => frame' = None /\ result_frame' = None
          /\ frame # None =>
               /\ SameFrame(frame', frame)
               /\ result_frame'.shape = frame.shape
               /\ \A i \in 0..(Size(frame) - 1) :
                     /\ At(result_frame', i) \div 4 = At(frame, i) \div 4
                     /\ At(result_frame', i) # At(frame, i)
                            => InFootprint(frame, subtitle_data, i)]_vars

C6_Witness ==
    /\ pc = "embedded"
    /\ ValidCall
    /\ Truthy(subtitle_data)
    /\ \E i \in 0..(Size(frame) - 1) :
          /\ i >= 5 * Width(frame) * Channels(frame)
          /\ At(result_frame, i) # At(frame, i)
    /\ \E i \in 0..39 : At(result_frame, i) # At(frame, i)

\* C10: whenever the returned frame carries the subtitle record, it carries
\* the timing record too.
C10_TimingPrioritized ==
    (/\ CleanRead
     /\ ValidCall
     /\ Truthy(subtitle_data)
     /\ subtitle_read = ExpectedSubtitleBytes(subtitle_data.bytes))
    => timing = <<frame_number, timestamp_ms>>

\* what the call returns when it is given no subtitle payload
NoSubtitleResult == embed_frame_data(frame, frame_number, timestamp_ms, None)

\* the first row of the subtitle region is not below the timing strip
RegionOverlapsStrip(f) == Height(f) - Max(1, (Height(f) * 10) \div 100) < 5

\* no subtitle was written and the warning was logged
SubtitleSkipped ==
    /\ result_frame # None
    /\ SameFrame(result_frame, NoSubtitleResult.ret)
    /\ \E k \in 1..Len(log) :
           log[k] = <<"warning", "Subtitle region overlaps with timing strip",
                      "subtitle_region">>

\* rows 0..4 are as without a subtitle payload, and so is the pair extracted
StripAsWithoutSubtitle ==
    /\ \A i \in 0..(Min(Size(frame), 5 * Width(frame) * Channels(frame)) - 1) :
           At(result_frame, i) = At(NoSubtitleResult.ret, i)
    /\ timing = extract_timing_data(NoSubtitleResult.ret)

\* C11 as stated: when the subtitle region would overlap the timing strip the
\* subtitle is skipped, the timing record is still embedded and the frame is
\* returned; rows 0..4 and the pair extracted are the same with or without a
\* subtitle payload.
C11_AsStated ==
    (CleanRead /\ ValidCall /\ Truthy(subtitle_data)) =>
        /\ RegionOverlapsStrip(frame) =>
               SubtitleSkipped /\ timing = <<frame_number, timestamp_ms>>
        /\ StripAsWithoutSubtitle

\* C11 amended: the timing record is still embedded when the frame has the 5
\* rows of the strip and the strip holds the 10 bytes of the record.
C11_SkippedOnOverlap ==
    (CleanRead /\ ValidCall /\ Truthy(subtitle_data)) =>
        /\ RegionOverlapsStrip(frame) =>
               /\ SubtitleSkipped
               /\ (Height(frame) >= 5 /\ StripBytes(frame) >= 10)
                      => timing = <<frame_number, timestamp_ms>>
        /\ StripAsWithoutSubtitle

C11_Witness ==
    /\ CleanRead
    /\ ValidCall
    /\ Truthy(subtitle_data)
    /\ frame.shape = <<5, 10, 3>>
    /\ Len(subtitle_data.bytes) = 1
    /\ SubtitleSkipped
    /\ timing = <<frame_number, timestamp_ms>>
    /\ frame_number = U32(0, 42)

\* what the caller of embed_frame_data can observe of the call: nothing was
\* handed back, or an array was returned as after an embed (the call raises
\* nothing and returns nothing else)
CallOutcome == IF result_frame = None THEN "nothing returned" ELSE "frame returned"

\* C12: when the timing strip holds fewer than 10 bytes, the call's outcome
\* differs from that of a successful embed, and no pixel is written.
C12_CapacityExceededSurfaced ==
    (/\ pc = "embedded"
     /\ ValidCall
     /\ Height(frame) >= 5
     /\ StripBytes(frame) < 10)
    => /\ CallOutcome # "frame returned"
       /\ SameFrame(result_frame, frame)

\* C17: when the frame given has not 3 channels, the frame returned equals
\* the frame given: no bit was embedded.
C17_UnsupportedLayoutRejected ==
    (/\ pc = "embedded"
     /\ frame # None
     /\ Size(frame) > 0
     /\ ~ThreeChannel(frame))
    => /\ result_frame # None
       /\ SameFrame(result_frame, frame)

\* the failure condition extract_timing_data meets on f ("none": it succeeds)
TimingFailure(f) ==
    IF f = None THEN "null frame"
    ELSE IF Height(f) < 5 THEN "fewer than 5 rows"
    ELSE IF StripBytes(f) < 10 THEN "fewer than 10 bytes"
    ELSE LET read == _extract_data_from_region(f, RowSlice(f, 0, 5), 10)
         IN  IF unpack_H(read, 8) # crc16(SubSeq(read, 1, 8))
             THEN "checksum mismatch"
             ELSE "none"

\* one frame for each failure condition
FailingFrames ==
    {None} \cup {NewFrame(sh, [fill |-> 255, step |-> 0]) :
                    sh \in {<<4, 10, 3>>, <<5, 2, 3>>, <<7, 10, 3>>}}

\* C18: the result of extract_timing_data on a frame that meets one failure
\* condition differs from its result on a frame that meets another one.
C18_FailuresDistinguishable ==
    (pc = "extracted" /\ TimingFailure(result_frame) # "none") =>
        \A g \in FailingFrames :
            TimingFailure(g) \notin {"none", TimingFailure(result_frame)}
                => extract_timing_data(g) # timing

\* what a reader finds in the bottom region of f: the header (length u32,
\* crc16 u16) and length bytes are read, "incomplete" when the region holds
\* fewer bytes than that, else the crc16 of the bytes is compared
SubtitleValidity(f) ==
    LET header == _extract_data_from_region(f, BottomRegion(f), 6)
        length == unpack_I(header, 0)
    IN  IF Len(header) < 6 \/ length.hi > 0 \/ 6 + length.lo > BottomBytes(f)
        THEN "incomplete"
        ELSE LET read == _extract_data_from_region(f, BottomRegion(f), 6 + length.lo)
             IN  IF unpack_H(header, 4) = crc16(SubSeq(read, 7, 6 + length.lo))
                 THEN "valid"
                 ELSE "checksum mismatch"

\* the frame embed_frame_data returns for f with a payload of one byte, with
\* bit k of the subtitle record flipped
CorruptedRecord(f, k) ==
    FlipFrameBit(embed_frame_data(f, U32(0, 0), U32(0, 0), Bytes(<<65>>)).ret,
                 BottomRegion(f).row0 * Width(f) * Channels(f) * LSB_DEPTH + k)

\* C19: the bottom region of a frame embedded without a subtitle payload
\* never reads as a checksum-valid record, and never reads as a corrupted
\* record does.
C19_AbsentIsNotCorrupted ==
    (/\ pc = "embedded"
     /\ ValidCall
     /\ ThreeChannel(frame)
     /\ subtitle_data = None
     /\ ~RegionOverlapsStrip(frame)
     /\ BottomBytes(frame) >= 7)
    => /\ SubtitleValidity(result_frame) # "valid"
       /\ \A k \in 0..55 :
            SubtitleValidity(result_frame) # SubtitleValidity(CorruptedRecord(frame, k))

(***************************************************************************)
(* Properties of the bit codec (specification SpecRegion).                 *)
(***************************************************************************)
\* channels of a region: 1 for a 2-D array, else its third dimension
RegionChannels == IF Len(region.shape) = 2 THEN 1 ELSE region.shape[3]

\* the byte string fits the region: 8 bits per byte, 2 bits per channel value
DataFits == 8 * Len(data) <= Height(region) * Width(region) * RegionChannels * 2

\* bit k (0-based) of the byte string, least-significant bit of a byte first
DataBit(k) == (data[(k \div 8) + 1] \div (2 ^ (k % 8))) % 2

\* bit k as stored: pixel k div (2*channels) in row-major order, channel
\* (k mod (2*channels)) div 2, bit position k mod 2
StoredBit(k) ==
    LET pixel == k \div (2 * RegionChannels)
        y == pixel \div Width(region)
        x == pixel % Width(region)
        c == (k % (2 * RegionChannels)) \div 2
        value == At(region, (y * Width(region) + x) * RegionChannels + c)
    IN  (value \div (2 ^ (k % 2))) % 2

\* C2: for a region of 1 or 3 channels and a byte string that fits its
\* capacity, extraction of len(data) bytes returns the data embedded, and bit
\* k of the data sits in pixel k div (2*channels), channel
\* (k mod (2*channels)) div 2, bit position k mod 2.
C2_ExtractInvertsEmbed ==
    (pc = "region_extracted" /\ DataFits)
    => /\ extracted_data = data
       /\ \A k \in 0..(8 * Len(data) - 1) : StoredBit(k) = DataBit(k)

C2_Witness ==
    /\ pc = "region_extracted"
    /\ DataFits
    /\ region.shape = <<2, 3, 3>>
    /\ data = <<141, 0, 255>>
    /\ extracted_data = data
    /\ region.cover.step = 37

(***************************************************************************)
(* Properties of the active-subtitle selection (specification SpecSelect). *)
(***************************************************************************)
\* entry i contains the frame time frame_index * 1000 / video_fps (exactly:
\* start_ms <= frame_index * 1000 / video_fps < end_ms, cleared of the division)
ContainsFrameTime(i) ==
    /\ subtitles[i].start_ms * video_fps <= frame_index * 1000
    /\ frame_index * 1000 < subtitles[i].end_ms * video_fps

ContainsTime(i) == subtitles[i].start_ms <= time_ms /\ time_ms < subtitles[i].end_ms

\* the data of entry i: "start|end|text" compressed
EntryData(i) ==
    compress_subtitle_text(subtitles[i].text, subtitles[i].start_ms, subtitles[i].end_ms)

\* C7: the selection returns the first entry in timeline order with
\* start_ms <= frameTimeMs < end_ms, frameTimeMs = frame_number * 1000 / fps,
\* and None when no entry contains the time (half-open interval, the earlier
\* entry wins); get_subtitle_at_time does so for the time it is given.
C7_FirstActiveSelected ==
    /\ pc \in {"prepared", "looked_up"} =>
          /\ (\A i \in 1..Len(subtitles) : ~ContainsFrameTime(i)) => selected = None
          /\ \A i \in 1..Len(subtitles) :
                (ContainsFrameTime(i) /\ \A j \in 1..(i - 1) : ~ContainsFrameTime(j))
                    => selected = EntryData(i)
    /\ pc = "looked_up" =>
          /\ (\A i \in 1..Len(subtitles) : ~ContainsTime(i)) => at_time = None
          /\ \A i \in 1..Len(subtitles) :
                (ContainsTime(i) /\ \A j \in 1..(i - 1) : ~ContainsTime(j))
                    => at_time = subtitles[i]

(***************************************************************************)
(* Properties of the markers (specification SpecMarker).                   *)
(***************************************************************************)
\* the low 18 bits of a marker's pattern plane: bit k is the least-significant
\* bit of channel 0 of pixel k in row-major order
PatternPlaneValue(m) ==
    LET value[k \in 0..18] ==
            IF k = 18 THEN 0
            ELSE (At(m, Flat(m, k \div MARKER_SIZE, k % MARKER_SIZE, PATTERN_CHANNEL)) % 2)
                 + 2 * value[k + 1]
    IN  value[0]

\* C8: for every video id, the channel-0 least-significant bits of each of the
\* four generated markers, read row-major and least-significant bit first,
\* give (video_hash << 2) | corner code, with the codes 0 (TL), 1 (TR), 2 (BL),
\* 3 (BR).
C8_PatternPlaneRecoverable ==
    marker_generator # None =>
        \A corner \in Corners :
            PatternPlaneValue(marker_generator.markers[corner])
                = marker_generator.video_hash * 4 + corner_id(corner)

\* the 16-bit sum of the pattern bytes and the parity bytes of a corner
ChecksumValue(video_hash, corner) ==
    LET pattern_data == _create_pattern_data(video_hash, corner)
    IN  (SumBytes(pattern_data, 1)
         + SumBytes(_generate_error_correction(pattern_data), 1)) % 65536

\* the bytes given to the checksum plane of a corner
ChecksumPlane(video_hash, corner) ==
    LET pattern_data == _create_pattern_data(video_hash, corner)
    IN  _calculate_checksum(pattern_data, _generate_error_correction(pattern_data))

\* C21: each of the 50 byte slots of the checksum plane of a generated
\* marker holds the low byte or the high byte of the 16-bit sum of the
\* pattern and parity bytes.
C21_ChecksumReplicatedBytewise ==
    marker_generator # None =>
        \A corner \in Corners :
            LET plane == ChecksumPlane(marker_generator.video_hash, corner)
                value == ChecksumValue(marker_generator.video_hash, corner)
            IN  /\ Len(plane) = 50
                /\ \A i \in 1..Len(plane) : plane[i] \in {value % 256, value \div 256}

\* the pixel (y, x) of marker m, as (channel 0, channel 1, channel 2)
MarkerPixel(m, y, x) == <<At(m, Flat(m, y, x, 0)), At(m, Flat(m, y, x, 1)), At(m, Flat(m, y, x, 2))>>

\* the pixels of the outer ring: row 0, row 19, column 0, column 19
Ring ==
    {p \in (0..(MARKER_SIZE - 1)) \X (0..(MARKER_SIZE - 1)) :
        p[1] \in {0, MARKER_SIZE - 1} \/ p[2] \in {0, MARKER_SIZE - 1}}

\* C25: every pixel of the outer ring of each generated marker is pure white
\* or pure black (the glyph has overwritten no pixel of the ring).
C25_RingIsBlackOrWhite ==
    marker_generator # None =>
        \A corner \in Corners : \A p \in Ring :
            MarkerPixel(marker_generator.markers[corner], p[1], p[2])
                \in {<<255, 255, 255>>, <<0, 0, 0>>}

\* the block of f at (x, y) holds the marker's bytes
BlockIsMarker(f, m, x, y) ==
    \A my \in 0..(MARKER_SIZE - 1), mx \in 0..(MARKER_SIZE - 1), c \in 0..2 :
        At(f, Flat(f, y + my, x + mx, c)) = At(m, Flat(m, my, mx, c))

\* the fixed position (x, y) of a corner in a w x h frame
FixedPosition(corner, w, h) ==
    CASE corner = "TL" -> <<60, 60>>
      [] corner = "TR" -> <<w - 80, 60>>
      [] corner = "BL" -> <<60, h - 80>>
      [] corner = "BR" -> <<w - 80, h - 80>>

\* the 20x20 block at p is wholly inside a w x h frame
BlockInside(p, w, h) == p[1] >= 0 /\ p[2] >= 0 /\ p[1] + 20 <= w /\ p[2] + 20 <= h

\* element i of a w x h x 3 frame lies in the block at p
InBlock(i, p, w) ==
    /\ (i \div 3) % w \in p[1]..(p[1] + 19)
    /\ (i \div 3) \div w \in p[2]..(p[2] + 19)

\* C13: on a non-empty 3-channel w x h frame embed_markers_in_frame does not
\* fail, the positions are (60,60), (w-80,60), (60,h-80), (w-80,h-80), every
\* corner whose block is inside the frame has its marker at that position in
\* the result, the input frame is not modified and the elements outside the
\* blocks stamped are unchanged.
C13_MarkersAtFixedPositions ==
    [][(/\ pc = "constructed"
        /\ frame # None
        /\ Size(frame) > 0
        /\ ThreeChannel(frame))
       => /\ pc' = "marked"
          /\ SameFrame(frame', frame)
          /\ frame_with_markers'.shape = frame.shape
          /\ frame_with_markers'.cover = frame.cover
          /\ \A corner \in Corners :
                LET p == FixedPosition(corner, Width(frame), Height(frame))
                IN  /\ _calculate_marker_positions(Width(frame), Height(frame))[corner] = p
                    /\ BlockInside(p, Width(frame), Height(frame))
                          => BlockIsMarker(frame_with_markers',
                                           marker_generator.markers[corner], p[1], p[2])
          /\ \A i \in (DOMAIN frame_with_markers'.px) \cup (DOMAIN frame.px) :
                (\A corner \in Corners :
                    LET p == FixedPosition(corner, Width(frame), Height(frame))
                    IN  ~(BlockInside(p, Width(frame), Height(frame))
                          /\ InBlock(i, p, Width(frame))))
                => At(frame_with_markers', i) = At(frame, i)]_vars

\* the four markers of generators a and b are pixel-identical
SameMarkers(a, b) ==
    \A corner \in Corners : SameFrame(a.markers[corner], b.markers[corner])

C20_ValidationSucceeds ==
    (/\ pc = "validated"
     /\ frame # None
     /\ Size(frame) > 0
     /\ ThreeChannel(frame))
    => validated

\* embed_markers_in_frame has returned a frame for a non-empty frame
Marked ==
    /\ pc \in {"marked", "validated", "second"}
    /\ frame # None
    /\ Size(frame) > 0
    /\ frame_with_markers # None

\* the corners stamped by the call: those it has not logged as not fitting
StampedCorners ==
    {corner \in Corners :
        \A k \in 1..Len(log) : log[k] # <<"warning", "Marker doesn't fit in frame", corner>>}

\* the blocks at p and q share no pixel
Disjoint(p, q) ==
    \/ p[1] + MARKER_SIZE <= q[1]
    \/ q[1] + MARKER_SIZE <= p[1]
    \/ p[2] + MARKER_SIZE <= q[2]
    \/ q[2] + MARKER_SIZE <= p[2]

\* C26: the blocks of any two corners stamped are disjoint, and each block
\* stamped holds its own corner's marker in the frame returned.
C26_StampedBlocksDisjoint ==
    Marked =>
        LET positions == _calculate_marker_positions(Width(frame), Height(frame))
        IN  /\ \A c1, c2 \in StampedCorners :
                    c1 # c2 => Disjoint(positions[c1], positions[c2])
            /\ \A corner \in StampedCorners :
                    BlockIsMarker(frame_with_markers, marker_generator.markers[corner],
                                  positions[corner][1], positions[corner][2])

\* C27: all four corners are stamped when width >= 80 and height >= 80, and
\* none is stamped (the frame returned equals the frame given) otherwise.
C27_AllOrNone ==
    Marked =>
        IF Width(frame) >= 80 /\ Height(frame) >= 80
        THEN StampedCorners = Corners
        ELSE StampedCorners = {} /\ SameFrame(frame_with_markers, frame)

\* a frame 100 wide and 70 high: no corner is stamped
C27_Witness ==
    /\ Marked
    /\ frame.shape = <<70, 100, 3>>
    /\ StampedCorners = {}
    /\ Len(log) = 4
    /\ SameFrame(frame_with_markers, frame)

(***************************************************************************)
(* Properties of the calls with an invalid frame (specification            *)
(* SpecInvalid).                                                           *)
(***************************************************************************)

\* C16: with a frame that is None or of size 0, embed_frame_data and
\* embed_markers_in_frame return the frame as it was given and leave it as
\* it was, and extract_timing_data returns (None, None).
C16_InvalidFrameRejected ==
    [][(frame = None \/ Size(frame) = 0) =>
            /\ frame' = frame
            /\ pc = "input" => result_frame' = frame
            /\ pc = "embedded" => timing' = <<None, None>>
            /\ pc = "extracted" => (pc' = "marked" /\ frame_with_markers' = frame)]_vars

C16_Witness ==
    /\ pc = "marked"
    /\ frame # None
    /\ frame.shape = <<0>>
    /\ result_frame = frame
    /\ frame_with_markers = frame
    /\ timing = <<None, None>>
    /\ log = << <<"error", "Invalid frame provided", "frame">> >>

(***************************************************************************)
(* Properties of the workers (specification SpecWorkers).                  *)
(***************************************************************************)

\* what the loop of encode_video_thread, run alone on the video as it was
\* extracted, yields for the i-th frame (k = i + 1)
SequentialOutput(video, k) ==
    LET marked == embed_markers_in_frame(MarkerGenerator(video_id).markers, video[k])
        payload == prepare_subtitle_data_for_frame(subtitles, k - 1, video_fps)
        stamp == ToU32(IntOfProduct(k - 1, frame_duration_ms(video_fps)))
    IN  embed_frame_data(marked.ret, ToU32(k - 1), stamp, payload).ret

\* C15: whichever worker processes frame k, and whatever the other workers
\* did before and between its two calls, the output stored for frame k is
\* the output of sequential processing, and the shared frames and markers
\* are as before the step.
C15_OrderIndependent ==
    [][/\ marker_generator' = marker_generator
          \/ SameMarkers(marker_generator', marker_generator)
       /\ \A k \in 1..Len(frames) :
            /\ frames'[k] = frames[k] \/ SameFrame(frames'[k], frames[k])
            /\ (processed_frames[k] = None /\ processed_frames'[k] # None) =>
                    SameFrame(processed_frames'[k], SequentialOutput(frames, k))]_vars

\* both frames are done and differ, and all workers are idle again: among the
\* behaviours that end here are those with interleaved calls
C15_Witness ==
    /\ pc = "workers"
    /\ Len(frames) >= 2
    /\ frames[1].shape = <<100, 100, 3>>
    /\ subtitles # <<>>
    /\ processed_frames[1] # None
    /\ processed_frames[2] # None
    /\ ~SameFrame(processed_frames[1], processed_frames[2])
    /\ SameFrame(processed_frames[2], SequentialOutput(frames, 2))
    /\ BlockIsMarker(processed_frames[1], marker_generator.markers["TL"], 60, 60)
    /\ \A w \in Workers : workers[w].pc = "idle"

(***************************************************************************)
(* Properties of the encoding of a video (specification SpecPipeline).     *)
(***************************************************************************)

\* the four markers fit in f
MarkersFit(f) ==
    \A corner \in Corners :
        LET position == _calculate_marker_positions(Width(f), Height(f))[corner]
        IN  MarkerFits(position[1], position[2], Width(f), Height(f))

\* no subtitle record was refused for its size
PayloadsFit == \A k \in 1..Len(log) : log[k][2] # "Data too large"

\* C9: in every processed frame in which the markers fit, with subtitle
\* payloads that fit their region, each stamped 20x20 block is byte-identical
\* to the generated marker.
C9_MarkersStampedUnchanged ==
    \A k \in 1..Len(processed_frames) :
        (MarkersFit(processed_frames[k]) /\ PayloadsFit) =>
            \A corner \in Corners :
                LET position == _calculate_marker_positions(Width(processed_frames[k]),
                                                            Height(processed_frames[k]))[corner]
                IN  BlockIsMarker(processed_frames[k], marker_generator.markers[corner],
                                  position[1], position[2])

(***************************************************************************)
(* Properties of the parity bytes (specification SpecParity).              *)
(***************************************************************************)

\* bit k of p is bit k of b xor bit k - 1 of b (bit 0 of p is bit 0 of b)
ParityHolds(b, p) ==
    \A k \in 0..7 :
        BitOf(p, k) = (BitOf(b, k) + (IF k = 0 THEN 0 ELSE BitOf(b, k - 1))) % 2

\* C22: each parity byte generated is its pattern byte xor the pattern byte
\* shifted left by one within 8 bits, and after a flip of one bit of a
\* pattern byte or of a parity byte that byte's pair no longer satisfies
\* this relation.
C22_ParityDetectsSingleFlip ==
    /\ pc = "parity_generated" =>
            /\ Len(parity_bytes) = Len(pattern_bytes)
            /\ \A i \in 1..Len(pattern_bytes) : ParityHolds(pattern_bytes[i], parity_bytes[i])
    /\ pc = "parity_flipped" =>
            \E i \in 1..Len(pattern_bytes) : ~ParityHolds(pattern_bytes[i], parity_bytes[i])

\* the top bit of the pattern byte 0 was flipped: the shifted byte is as
\* before
C22_Witness ==
    /\ pc = "parity_flipped"
    /\ pattern_bytes = <<128>>
    /\ parity_bytes = <<0>>
    /\ ~ParityHolds(pattern_bytes[1], parity_bytes[1])

(***************************************************************************)
(* Properties of the capacity pre-check (specification SpecCapacity).      *)
(***************************************************************************)

\* C23: once validate_embedding_capacity was called, its result is True for
\* 1280x720 and False for 50x50.
C23_SmallFrameRejected ==
    pc # "precheck" =>
        /\ (Width(frame) = 1280 /\ Height(frame) = 720) => capacity_ok
        /\ (Width(frame) = 50 /\ Height(frame) = 50) => ~capacity_ok

\* C28: when validate_embedding_capacity returned True for the width and
\* height of a 3-channel frame, the timing record read from the frame that
\* embed_frame_data returned is (frame_number, timestamp_ms).
C28_PreCheckSound ==
    (/\ CleanRead
     /\ ValidCall
     /\ ThreeChannel(frame)
     /\ capacity_ok)
    => timing = <<frame_number, timestamp_ms>>

(***************************************************************************)
(* Properties of the cancellation (specification SpecPipeline).            *)
(***************************************************************************)
\* cancel_encoding has been called and the encoding thread is running
CancelledWhileRunning ==
    /\ pc \in {"thread", "encoding", "saving"}
    /\ ~encoding_in_progress

\* C30: once cancel_encoding has been called while the encoding thread is
\* running, the thread does not run save_frames_as_video to completion, and
\* after encoding_finished the flag is false, the encode button enabled and
\* the cancel button disabled.
C30_CancelPreventsSave ==
    /\ [][CancelledWhileRunning => outcome' # "saved"]_vars
    /\ [](pc = "finished" =>
            /\ ~encoding_in_progress
            /\ encode_button = "normal"
            /\ cancel_button = "disabled")

(***************************************************************************)
(* Properties of successive calls (specification SpecChain).               *)
(***************************************************************************)
\* the record read after the last call is the last call's pair
LastPairRead ==
    (/\ CleanRead
     /\ ValidCall
     /\ Height(frame) >= 5
     /\ StripBytes(frame) >= 10)
    => timing = <<frame_number, timestamp_ms>>

\* a call with the record of the call before it returns the same frame
SameRecordSameFrame ==
    (/\ pc \in {"embedded", "extracted"}
     /\ pc' = "embedded"
     /\ frame_number' = frame_number
     /\ timestamp_ms' = timestamp_ms
     /\ subtitle_data' = subtitle_data)
    => SameFrame(result_frame', result_frame)

\* C29: after successive calls of embed_frame_data, each on the frame the
\* previous call returned, with pairs that fit 32 bits on a frame whose
\* strip holds the record, extract_timing_data returns the last pair; and
\* a call with the same record as the call before returns the same frame.
C29_LastPairWins == []LastPairRead /\ [][SameRecordSameFrame]_vars

\* the frame given to the last call carried another pair, and the last
\* call's pair is read
C29_Witness ==
    /\ CleanRead
    /\ ValidCall
    /\ extract_timing_data(frame) # <<None, None>>
    /\ extract_timing_data(frame) # timing
    /\ timing = <<frame_number, timestamp_ms>>

(***************************************************************************)
(* Properties of the timing validation (specification SpecTiming).         *)
(***************************************************************************)

\* C24: when any two entries of the list overlap, the issues returned by
\* validate_timing contain an overlap issue.
C24_OverlapReported ==
    (/\ pc = "timing_validated"
     /\ \E i, j \in 1..Len(subtitles) :
            i < j /\ overlaps_with(subtitles[i], subtitles[j]))
    => \E k \in 1..Len(issues) : issues[k][1] = "overlap"

====
